---- MODULE Spec2Model ----
(***************************************************************************)
(* A model of sage/misc/preparser.py: the literal stripper, the block      *)
(* matcher, the ellipsis expander, the numeric literal rewriter and the    *)
(* preparse pipeline.  Text is a sequence of one-character strings.        *)
(* Python values: False/None is <<>> where a string is expected, -1 is     *)
(* str.find's "not found".                                                 *)
(***************************************************************************)
EXTENDS Integers, Sequences, FiniteSets, TLC

VARIABLES
    pc,            \* position of the driving caller
    code,          \* the text the caller still has to feed
    state,         \* the QuoteState the caller carries between calls
    calls,         \* the calls made so far, each with its arguments and result
    quote_state,   \* preparser.quote_state, the module global
    implicit_mul_level   \* preparser.implicit_mul_level, the module global

vars == <<pc, code, state, calls, quote_state, implicit_mul_level>>

----------------------------------------------------------------------------
(* Characters *)

SQ == "'"
DQ == "\""
HASH == "#"
BSL == "\\"
PCT == "%"
NL == "\n"

Digits == {"0", "1", "2", "3", "4", "5", "6", "7", "8", "9"}
Lower == {"a", "b", "c", "d", "e", "f", "g", "h", "i", "j", "k", "l", "m",
          "n", "o", "p", "q", "r", "s", "t", "u", "v", "w", "x", "y", "z"}
Upper == {"A", "B", "C", "D", "E", "F", "G", "H", "I", "J", "K", "L", "M",
          "N", "O", "P", "Q", "R", "S", "T", "U", "V", "W", "X", "Y", "Z"}
Alpha == Lower \cup Upper
WordChars == Alpha \cup Digits \cup {"_"}
Blank == {" ", "\t", "\n", "\r"}

----------------------------------------------------------------------------
(* Python string primitives *)

Min2(a, b) == IF a <= b THEN a ELSE b
Max2(a, b) == IF a >= b THEN a ELSE b
SetMin(S) == CHOOSE x \in S : \A y \in S : x <= y
SetMax(S) == CHOOSE x \in S : \A y \in S : x >= y

\* s[i], negative indices counting from the end as Python does
PyAt(s, i) == IF i >= 0 THEN s[i + 1] ELSE s[Len(s) + i + 1]

\* s[a:b] for 0 <= a, clamped to the text as Python does
Slice(s, a, b) == SubSeq(s, a + 1, Min2(b, Len(s)))

\* s[a:]
SliceFrom(s, a) == SubSeq(s, a + 1, Len(s))

\* s.startswith(sub, i)
StartsAt(s, sub, i) ==
    /\ i >= 0
    /\ i + Len(sub) <= Len(s)
    /\ SubSeq(s, i + 1, i + Len(sub)) = sub

\* s.find(sub, from)
Find(s, sub, from) ==
    LET hits == {i \in from .. (Len(s) - Len(sub)) : StartsAt(s, sub, i)}
    IN  IF hits = {} THEN -1 ELSE SetMin(hits)

\* s.rfind(sub)
RFind(s, sub) ==
    LET hits == {i \in 0 .. (Len(s) - Len(sub)) : StartsAt(s, sub, i)}
    IN  IF hits = {} THEN -1 ELSE SetMax(hits)

\* s.replace(old, new): non-overlapping occurrences, left to right
RECURSIVE Replace(_, _, _)
Replace(s, old, new) ==
    LET i == Find(s, old, 0)
    IN  IF i = -1 THEN s
        ELSE Slice(s, 0, i) \o new \o Replace(SliceFrom(s, i + Len(old)), old, new)

\* "".join(parts)
RECURSIVE Join(_)
Join(parts) == IF parts = <<>> THEN <<>> ELSE Head(parts) \o Join(Tail(parts))

\* c * n
RECURSIVE Repeat(_, _)
Repeat(c, n) == IF n = 0 THEN <<>> ELSE <<c>> \o Repeat(c, n - 1)

DigitChar(d) == <<"0", "1", "2", "3", "4", "5", "6", "7", "8", "9">>[d + 1]

\* "%s" % n for a natural number n
RECURSIVE Str(_)
Str(n) == IF n < 10 THEN <<DigitChar(n)>> ELSE Str(n \div 10) \o <<DigitChar(n % 10)>>

\* sub occurs in s
Contains(s, sub) == Find(s, sub, 0) # -1

\* number of (possibly overlapping) occurrences of sub in s
Occurrences(s, sub) == Cardinality({i \in 0 .. (Len(s) - Len(sub)) : StartsAt(s, sub, i)})

\* the element of a set of one element: {e(x) : x \in {v}} computes v once
Only(S) == CHOOSE x \in S : TRUE

----------------------------------------------------------------------------
(* The literal table and its substitution into a skeleton *)

EmptyDict == [k \in {} |-> <<>>]

DictPut(d, k, v) == [x \in (DOMAIN d) \cup {k} |-> IF x = k THEN v ELSE d[x]]

\* "L%s" % counter
Label(counter) == <<"L">> \o Str(counter)

\* "%%(%s)s" % label
Placeholder(label) == <<"%", "(">> \o label \o <<")", "s">>

\* skeleton % literals: "%%" gives "%", "%(key)s" gives literals[key]; any
\* other use of "%" makes Python raise, which is the result FormatError
FormatError == [ok |-> FALSE, text |-> <<>>]

RECURSIVE Format(_, _)
Format(s, literals) ==
    LET i == Find(s, <<PCT>>, 0)
    IN  IF i = -1 THEN [ok |-> TRUE, text |-> s]
        ELSE IF StartsAt(s, <<PCT, PCT>>, i)
        THEN LET rest == Format(SliceFrom(s, i + 2), literals)
             IN  IF rest.ok
                 THEN [ok |-> TRUE, text |-> Slice(s, 0, i) \o <<PCT>> \o rest.text]
                 ELSE FormatError
        ELSE IF StartsAt(s, <<PCT, "(">>, i)
        THEN LET close == Find(s, <<")">>, i + 2)
             IN  IF close = -1 \/ ~StartsAt(s, <<"s">>, close + 1)
                    \/ Slice(s, i + 2, close) \notin DOMAIN literals
                 THEN FormatError
                 ELSE LET rest == Format(SliceFrom(s, close + 2), literals)
                      IN  IF rest.ok
                          THEN [ok |-> TRUE,
                                text |-> Slice(s, 0, i)
                                         \o literals[Slice(s, i + 2, close)]
                                         \o rest.text]
                          ELSE FormatError
        ELSE FormatError

----------------------------------------------------------------------------
(* strip_string_literals *)

NoState == [in_quote |-> <<>>, raw |-> FALSE]

\* the run of backslashes before code[q]: the k the while loop ends with
RECURSIVE BackslashK(_, _, _)
BackslashK(s, q, k) ==
    IF PyAt(s, q - k) = BSL THEN BackslashK(s, q, k + 1) ELSE k

\* q after the escape test of lines 307-312
SkipEscaped(s, q, raw) ==
    IF ~raw /\ PyAt(s, q - 1) = BSL
    THEN IF BackslashK(s, q, 2) % 2 = 0 THEN q + 1 ELSE q
    ELSE q

\* EscapePercent without the doubling
EscapePercentForgotten(s) == s

\* code.replace('%', '%%')
EscapePercent(s) == Replace(s, <<PCT>>, <<PCT, PCT>>)

\* a comment: its body becomes a literal, the marker stays (lines 288-296)
CommentStep(s, st, hash_q) ==
    LET nl == Find(s, <<NL>>, hash_q)
        newline == IF nl = -1 THEN Len(s) ELSE nl
        label == Label(st.counter + 1)
    IN  [st EXCEPT
            !.counter = st.counter + 1,
            !.literals = DictPut(st.literals, label, Slice(s, hash_q + 1, newline)),
            !.new_code = st.new_code \o EscapePercent(Slice(s, st.start, hash_q))
                         \o <<HASH>> \o Placeholder(label),
            !.start = newline,
            !.q = newline]

\* EndStep keeping the open literal out of the table and the skeleton
EndStepNoPlaceholder(s, st) ==
    IF st.in_quote # <<>>
    THEN st
    ELSE [st EXCEPT !.new_code = st.new_code \o EscapePercent(SliceFrom(s, st.start))]

\* the end of the chunk: the literal still open becomes an entry of the
\* table and a placeholder of the skeleton (lines 297-305)
EndStep(s, st) ==
    IF st.in_quote # <<>>
    THEN [st EXCEPT
            !.counter = st.counter + 1,
            !.literals = DictPut(st.literals, Label(st.counter + 1),
                                 SliceFrom(s, st.start)),
            !.new_code = st.new_code \o Placeholder(Label(st.counter + 1))]
    ELSE [st EXCEPT !.new_code = st.new_code \o EscapePercent(SliceFrom(s, st.start))]

\* QuoteStep resuming the code at the closing delimiter instead of after it
QuoteStepStartAtDelimiter(s, st, q) ==
    LET q2 == SkipEscaped(s, q, st.raw)
        n == Len(st.in_quote)
        label == Label(st.counter + 1)
    IN  IF Slice(s, q2, q2 + n) = st.in_quote
        THEN [st EXCEPT
                !.counter = st.counter + 1,
                !.literals = DictPut(st.literals, label, Slice(s, st.start, q2 + n)),
                !.new_code = st.new_code \o Placeholder(label),
                !.q = q2 + n,
                !.start = q2,
                !.in_quote = <<>>]
        ELSE [st EXCEPT !.q = q2 + 1]

\* a quote character at q inside a literal: it closes the literal or is
\* passed over (lines 306-322)
QuoteStep(s, st, q) ==
    LET q2 == SkipEscaped(s, q, st.raw)
        n == Len(st.in_quote)
        label == Label(st.counter + 1)
    IN  IF Slice(s, q2, q2 + n) = st.in_quote
        THEN [st EXCEPT
                !.counter = st.counter + 1,
                !.literals = DictPut(st.literals, label, Slice(s, st.start, q2 + n)),
                !.new_code = st.new_code \o Placeholder(label),
                !.q = q2 + n,
                !.start = q2 + n,
                !.in_quote = <<>>]
        ELSE [st EXCEPT !.q = q2 + 1]

\* a quote character at q outside a literal opens one (lines 323-331)
OpenStep(s, st, q) ==
    LET raw == q > 0 /\ PyAt(s, q - 1) \in {"r", "R"}
        in_quote == IF Len(s) >= q + 3 /\ PyAt(s, q + 1) = PyAt(s, q)
                       /\ PyAt(s, q) = PyAt(s, q + 2)
                    THEN Repeat(PyAt(s, q), 3)
                    ELSE <<PyAt(s, q)>>
    IN  [st EXCEPT
            !.raw = raw,
            !.in_quote = in_quote,
            !.new_code = st.new_code \o EscapePercent(Slice(s, st.start, q)),
            !.start = q,
            !.q = q + Len(in_quote)]

\* the while loop of lines 281-331
RECURSIVE StripLoop(_, _)
StripLoop(s, st) ==
    LET sig_q == Find(s, <<SQ>>, st.q)
        dbl_q == Find(s, <<DQ>>, st.q)
        hash_q == Find(s, <<HASH>>, st.q)
        m == Min2(sig_q, dbl_q)
        q == IF m = -1 THEN Max2(sig_q, dbl_q) ELSE m
    IN  IF st.in_quote = <<>> /\ hash_q # -1 /\ (q = -1 \/ hash_q < q)
        THEN StripLoop(s, CommentStep(s, st, hash_q))
        ELSE IF q = -1 THEN EndStep(s, st)
        ELSE IF st.in_quote # <<>> THEN StripLoop(s, QuoteStep(s, st, q))
        ELSE StripLoop(s, OpenStep(s, st, q))

\* strip_string_literals(code, state): (skeleton, literals, (in_quote, raw))
strip_string_literals(s, st0) ==
    LET fin == StripLoop(s, [new_code |-> <<>>, literals |-> EmptyDict,
                             counter |-> 0, start |-> 0, q |-> 0,
                             in_quote |-> st0.in_quote, raw |-> st0.raw])
    IN  [skeleton |-> fin.new_code,
         literals |-> fin.literals,
         state |-> [in_quote |-> fin.in_quote, raw |-> fin.raw]]

----------------------------------------------------------------------------
(* Input texts *)

\* the texts made of at most n pieces of T
RECURSIVE TextsUpTo(_, _)
TextsUpTo(T, n) ==
    IF n = 0 THEN {<<>>}
    ELSE LET P == TextsUpTo(T, n - 1)
         IN  P \cup {p \o t : p \in P, t \in T}

Last(s) == s[Len(s)]

\* the level preparse runs with unless implicit_multiplication() was called
DefaultLevel == 0

----------------------------------------------------------------------------
(* A caller that feeds a text to strip_string_literals in one or two       *)
(* chunks, handing the state returned by the first call to the second.     *)

MaxStripPieces == 4

StripPieces == {<<SQ>>, <<DQ>>, <<SQ, SQ, SQ>>, <<BSL>>, <<HASH>>, <<PCT>>,
                <<"a">>, <<NL>>, <<"r">>}

StripCall(chunk, st) ==
    [fn |-> "strip_string_literals",
     args |-> [code |-> chunk, state |-> st],
     ret |-> strip_string_literals(chunk, st)]

StripInit ==
    /\ pc = "first"
    /\ code \in TextsUpTo(StripPieces, MaxStripPieces)
    /\ state = NoState
    /\ calls = <<>>
    /\ quote_state = NoState
    /\ implicit_mul_level = DefaultLevel

\* the first call, on the first n characters, with no carried state
StripFirst ==
    /\ pc = "first"
    /\ \E n \in 0 .. Len(code) :
          LET c == StripCall(Slice(code, 0, n), NoState)
          IN  /\ calls' = Append(calls, c)
              /\ state' = c.ret.state
              /\ code' = SliceFrom(code, n)
    /\ pc' = "second"
    /\ UNCHANGED <<quote_state, implicit_mul_level>>

\* the second call, on the rest, with the state the first call returned
StripSecond ==
    /\ pc = "second"
    /\ code # <<>>
    /\ LET c == StripCall(code, state)
       IN  /\ calls' = Append(calls, c)
           /\ state' = c.ret.state
    /\ code' = <<>>
    /\ pc' = "done"
    /\ UNCHANGED <<quote_state, implicit_mul_level>>

StripNext == StripFirst \/ StripSecond

Spec == StripInit /\ [][StripNext]_vars

----------------------------------------------------------------------------
(* Properties of strip_string_literals *)

IsPrefix(p, s) == Len(p) <= Len(s) /\ SubSeq(s, 1, Len(p)) = p
IsSuffix(p, s) == Len(p) <= Len(s) /\ SubSeq(s, Len(s) - Len(p) + 1, Len(s)) = p

Restored(c) == Format(c.ret.skeleton, c.ret.literals)
OpenAtEnd(c) == c.ret.state.in_quote # <<>>
CarriedOpen(c) == c.args.state.in_quote # <<>>

\* C1: a chunk stripped with no carried state is reproduced exactly by
\* substituting the returned table into the returned skeleton.
C1_RoundTrip ==
    \A i \in 1 .. Len(calls) :
        calls[i].args.state = NoState
            => Restored(calls[i]) = [ok |-> TRUE, text |-> calls[i].args.code]

\* a chunk with a '%', an escaped quote and a literal left open has been
\* stripped with no carried state
C1_Witness ==
    /\ Len(calls) >= 1
    /\ calls[1].args.state = NoState
    /\ Contains(calls[1].args.code, <<PCT>>)
    /\ Contains(calls[1].args.code, <<BSL, SQ>>)
    /\ OpenAtEnd(calls[1])
    /\ Cardinality(DOMAIN calls[1].ret.literals) >= 1

\* C2: when a text is split inside a string literal and the second chunk is
\* stripped with the state returned for the first, each (skeleton, table)
\* pair restores its own chunk, so the two restorations concatenate to the
\* text.
C2_SplitRoundTrip ==
    (Len(calls) = 2 /\ CarriedOpen(calls[2]))
        => /\ calls[2].args.state = calls[1].ret.state
           /\ Restored(calls[1]) = [ok |-> TRUE, text |-> calls[1].args.code]
           /\ Restored(calls[2]) = [ok |-> TRUE, text |-> calls[2].args.code]

\* a literal opened in the first chunk was closed in the second, which goes
\* on with code after it
C2_Witness ==
    /\ Len(calls) = 2
    /\ CarriedOpen(calls[2])
    /\ ~OpenAtEnd(calls[2])
    /\ Len(calls[1].args.code) >= 2
    /\ Cardinality(DOMAIN calls[2].ret.literals) >= 2

\* the number of consecutive backslashes that end just before position p
RECURSIVE BackslashRun(_, _)
BackslashRun(s, p) ==
    IF p >= 1 /\ s[p] = BSL THEN 1 + BackslashRun(s, p - 1) ELSE 0

\* the first position from `from` on where the delimiter d stands after an
\* even number of backslashes, or -1
ClosingPosition(s, d, from) ==
    LET hits == {p \in from .. (Len(s) - Len(d)) :
                    StartsAt(s, d, p) /\ BackslashRun(s, p) % 2 = 0}
    IN  IF hits = {} THEN -1 ELSE SetMin(hits)

\* the first quote character of a text, or -1
FirstQuote(s) ==
    LET hits == {i \in 0 .. (Len(s) - 1) : s[i + 1] \in {SQ, DQ}}
    IN  IF hits = {} THEN -1 ELSE SetMin(hits)

\* the delimiter that opens at the quote character at q
DelimiterAt(s, q) ==
    IF StartsAt(s, Repeat(s[q + 1], 3), q) THEN Repeat(s[q + 1], 3) ELSE <<s[q + 1]>>

\* the first literal of call c ends at the first delimiter that stands after
\* an even number of backslashes, and stays open when there is none
ClosesAtEvenRun(c, d, start, from) ==
    LET p == ClosingPosition(c.args.code, d, from)
    IN  IF p = -1
        THEN /\ c.ret.state.in_quote = d
             /\ c.ret.literals[Label(1)] = SliceFrom(c.args.code, start)
        ELSE c.ret.literals[Label(1)] = Slice(c.args.code, start, p + Len(d))

\* the literal that call c is inside at the start of the chunk
CarriedLiteralParity(c) ==
    (CarriedOpen(c) /\ ~c.args.state.raw)
        => ClosesAtEvenRun(c, c.args.state.in_quote, 0, 0)

\* the first literal that opens in a chunk stripped with no carried state
\* (chunks with a comment set aside)
OpenedLiteralParity(c) ==
    LET q0 == FirstQuote(c.args.code)
        d == DelimiterAt(c.args.code, q0)
    IN  (/\ ~CarriedOpen(c)
         /\ ~Contains(c.args.code, <<HASH>>)
         /\ q0 # -1
         /\ ~(q0 > 0 /\ c.args.code[q0] \in {"r", "R"}))
            => ClosesAtEvenRun(c, d, q0, q0 + Len(d))

\* C4: inside a non-raw literal a delimiter after an odd number of
\* backslashes does not close the literal and one after an even number
\* (zero included) does, at every position of the chunk, the first
\* character of a chunk stripped with a carried open-literal state
\* included.
C4_EscapeParity ==
    \A i \in 1 .. Len(calls) :
        CarriedLiteralParity(calls[i]) /\ OpenedLiteralParity(calls[i])

\* C5 as the specification states it: while a literal is open at the end of
\* the chunk, the skeleton holds no placeholder for it.
C5_NoPlaceholderWhileOpen ==
    \A i \in 1 .. Len(calls) :
        LET c == calls[i]
        IN  OpenAtEnd(c)
                => ~ \E k \in DOMAIN c.ret.literals :
                        /\ IsSuffix(Placeholder(k), c.ret.skeleton)
                        /\ IsSuffix(c.ret.literals[k], c.args.code)

\* C5 as the code has it: the text of the literal left open is the last
\* entry of the table, its placeholder ends the skeleton, and the state
\* names the open delimiter; the call that goes on inside the literal emits
\* a placeholder of its own, first in its skeleton, for the rest of it.
C5_OpenLiteralPlaceholder ==
    \A i \in 1 .. Len(calls) :
        LET c == calls[i]
            last == Label(Cardinality(DOMAIN c.ret.literals))
            first == Label(1)
        IN  /\ OpenAtEnd(c)
                => /\ last \in DOMAIN c.ret.literals
                   /\ IsSuffix(Placeholder(last), c.ret.skeleton)
                   /\ IsSuffix(c.ret.literals[last], c.args.code)
                   /\ \/ IsPrefix(c.ret.state.in_quote, c.ret.literals[last])
                      \/ CarriedOpen(c) /\ c.ret.literals[last] = c.args.code
            /\ CarriedOpen(c)
                => /\ first \in DOMAIN c.ret.literals
                   /\ IsPrefix(Placeholder(first), c.ret.skeleton)
                   /\ IsPrefix(c.ret.literals[first], c.args.code)
                   /\ \/ IsSuffix(c.args.state.in_quote, c.ret.literals[first])
                      \/ OpenAtEnd(c) /\ c.ret.literals[first] = c.args.code

\* a literal was left open by the first call and closed by the second
C5_Witness ==
    /\ Len(calls) = 2
    /\ OpenAtEnd(calls[1])
    /\ ~OpenAtEnd(calls[2])
    /\ Len(calls[1].ret.literals[Label(Cardinality(DOMAIN calls[1].ret.literals))]) >= 2

\* the skeleton without its placeholders: the characters that were taken
\* as code, the doubled "%" single again
RECURSIVE CodeOutside(_)
CodeOutside(skeleton) ==
    IF skeleton = <<>> THEN <<>>
    ELSE IF StartsAt(skeleton, <<PCT, PCT>>, 0)
    THEN <<PCT>> \o CodeOutside(SliceFrom(skeleton, 2))
    ELSE IF StartsAt(skeleton, <<PCT, "(">>, 0)
    THEN CodeOutside(SliceFrom(skeleton, Find(skeleton, <<")", "s">>, 0) + 2))
    ELSE <<Head(skeleton)>> \o CodeOutside(Tail(skeleton))

\* C27: chaining strip_string_literals over the chunks of a text split at
\* its newlines, each call with the state the previous one returned, ends
\* in the same quote state as one call on the whole text and takes the same
\* characters as literal content
C27_ChunksAsWhole ==
    (Len(calls) = 2 /\ calls[1].args.code # <<>> /\ Last(calls[1].args.code) = NL)
        => LET whole == strip_string_literals(
                            calls[1].args.code \o calls[2].args.code, NoState)
           IN  /\ calls[2].ret.state = whole.state
               /\ CodeOutside(calls[1].ret.skeleton) \o CodeOutside(calls[2].ret.skeleton)
                      = CodeOutside(whole.skeleton)

----------------------------------------------------------------------------
(* containing_block *)

DefaultDelimiters == <<<<"(", ")">>, <<"[", "]">>, <<"{", "}">>>>
EllipsisDelimiters == <<<<"(", ")">>, <<"[", "]">>>>

SyntaxError == [kind |-> "SyntaxError"]
Block(start, end) == [kind |-> "ok", start |-> start, end |-> end]

\* openings = "".join([d[0] for d in delimiters]), closings likewise
Openings(delimiters) == [i \in 1 .. Len(delimiters) |-> delimiters[i][1]]
Closings(delimiters) == [i \in 1 .. Len(delimiters) |-> delimiters[i][2]]

\* s.index(c), 0-based, for a c that occurs in s
IndexOf(s, c) == SetMin({i \in 0 .. (Len(s) - 1) : s[i + 1] = c})
InString(c, s) == \E i \in 1 .. Len(s) : s[i] = c

\* the backward walk of lines 364-378, entered with the `start` of the loop
\* test; it ends with the position it stopped at and the delimiter kind p
RECURSIVE BackwardWalk(_, _, _, _, _, _)
BackwardWalk(s, start0, levels, p, delimiters, require_delim) ==
    LET start == start0 - 1
        openings == Openings(delimiters)
        closings == Closings(delimiters)
    IN  IF start0 < 0 THEN [kind |-> "ok", start |-> start0, p |-> p]
        ELSE IF start = -1
        THEN IF require_delim THEN SyntaxError
             ELSE [kind |-> "ok", start |-> start, p |-> p]
        ELSE IF InString(PyAt(s, start), openings)
        THEN LET p2 == IndexOf(openings, PyAt(s, start))
             IN  IF levels[p2 + 1] - 1 = -1
                 THEN [kind |-> "ok", start |-> start, p |-> p2]
                 ELSE BackwardWalk(s, start,
                                   [levels EXCEPT ![p2 + 1] = levels[p2 + 1] - 1],
                                   p2, delimiters, require_delim)
        ELSE IF InString(PyAt(s, start), closings)
        THEN LET p2 == IndexOf(closings, PyAt(s, start))
             IN  BackwardWalk(s, start,
                              [levels EXCEPT ![p2 + 1] = levels[p2 + 1] + 1],
                              p2, delimiters, require_delim)
        ELSE BackwardWalk(s, start, levels, p, delimiters, require_delim)

\* the forward walk of lines 383-392 for the delimiter kind (open, close):
\* the position it stops at, or the SyntaxError of line 386
RECURSIVE ForwardWalk(_, _, _, _, _)
ForwardWalk(s, end0, level, open, close) ==
    LET end == end0 + 1
    IN  IF end0 >= Len(s) THEN [kind |-> "ok", end |-> end0]
        ELSE IF end = Len(s) THEN SyntaxError
        ELSE IF PyAt(s, end) = open
        THEN ForwardWalk(s, end, level + 1, open, close)
        ELSE IF PyAt(s, end) = close
        THEN IF level - 1 = -1 THEN [kind |-> "ok", end |-> end]
             ELSE ForwardWalk(s, end, level - 1, open, close)
        ELSE ForwardWalk(s, end, level, open, close)

\* containing_block(code, ix, delimiters, require_delim)
containing_block(s, ix, delimiters, require_delim) ==
    LET back == BackwardWalk(s, ix, [i \in 1 .. Len(delimiters) |-> 0], 0,
                             delimiters, require_delim)
    IN  IF back.kind # "ok" THEN back
        ELSE IF back.start = -1 THEN Block(0, Len(s))
        ELSE LET fwd == ForwardWalk(s, ix, 0, delimiters[back.p + 1][1],
                                    delimiters[back.p + 1][2])
             IN  IF fwd.kind # "ok" THEN fwd
                 ELSE Block(back.start, fwd.end + 1)

----------------------------------------------------------------------------
(* A caller of containing_block on a text and a position of it *)

MaxBlockPieces == 5

BlockPieces == {<<"(">>, <<")">>, <<"[">>, <<"]">>, <<"x">>}

BlockCall(s, ix, delimiters, require_delim) ==
    [fn |-> "containing_block",
     args |-> [code |-> s, ix |-> ix, delimiters |-> delimiters,
               require_delim |-> require_delim],
     ret |-> containing_block(s, ix, delimiters, require_delim)]

BlockInit ==
    /\ pc = "first"
    /\ code \in TextsUpTo(BlockPieces, MaxBlockPieces)
    /\ state = NoState
    /\ calls = <<>>
    /\ quote_state = NoState
    /\ implicit_mul_level = DefaultLevel

\* containing_block(code, ix): require_delim is True
BlockStrict ==
    /\ pc = "first"
    /\ \E ix \in 0 .. (Len(code) - 1) :
       \E delimiters \in {DefaultDelimiters, EllipsisDelimiters} :
          calls' = <<BlockCall(code, ix, delimiters, TRUE)>>
    /\ pc' = "done"
    /\ UNCHANGED <<code, state, quote_state, implicit_mul_level>>

\* containing_block(code, ix, require_delim=False)
BlockLenient ==
    /\ pc = "first"
    /\ \E ix \in 0 .. (Len(code) - 1) :
       \E delimiters \in {DefaultDelimiters, EllipsisDelimiters} :
          calls' = <<BlockCall(code, ix, delimiters, FALSE)>>
    /\ pc' = "done"
    /\ UNCHANGED <<code, state, quote_state, implicit_mul_level>>

BlockNext == BlockStrict \/ BlockLenient

SpecBlock == BlockInit /\ [][BlockNext]_vars

----------------------------------------------------------------------------
(* Properties of containing_block *)

\* opening delimiters minus closing delimiters of one kind in s[a..b]
\* (1-based, inclusive)
RECURSIVE Depth(_, _, _, _, _)
Depth(s, a, b, open, close) ==
    IF b < a THEN 0
    ELSE Depth(s, a, b - 1, open, close)
         + (IF s[b] = open THEN 1 ELSE IF s[b] = close THEN -1 ELSE 0)

\* s[a] is an opening delimiter and s[b] the closing delimiter that matches it
Matches(s, a, b, open, close) ==
    /\ a < b
    /\ s[a] = open
    /\ s[b] = close
    /\ Depth(s, a, b, open, close) = 0
    /\ \A k \in a .. (b - 1) : Depth(s, a, k, open, close) >= 1

\* the spans [start, end) delimited by a matching pair that enclose ix
EnclosingSpans(s, ix, delimiters) ==
    {sp \in (0 .. Len(s)) \X (0 .. Len(s)) :
        /\ sp[1] <= ix
        /\ ix < sp[2]
        /\ \E d \in 1 .. Len(delimiters) :
              Matches(s, sp[1] + 1, sp[2], delimiters[d][1], delimiters[d][2])}

\* C6: for every position ix enclosed by a delimiter pair, a delimiter
\* position included, containing_block returns a span [start, end) around
\* ix that a matching pair of one kind delimits, and no shorter such span
\* encloses ix.
C6_MinimalEnclosingSpan ==
    \A i \in 1 .. Len(calls) :
        LET c == calls[i]
            spans == EnclosingSpans(c.args.code, c.args.ix, c.args.delimiters)
        IN  (c.fn = "containing_block" /\ spans # {})
                => /\ c.ret.kind = "ok"
                   /\ <<c.ret.start, c.ret.end>> \in spans
                   /\ \A sp \in spans :
                         sp[2] - sp[1] >= c.ret.end - c.ret.start

\* C7: with require_delim true and no enclosing pair, containing_block
\* raises SyntaxError; with require_delim false and no enclosing pair it
\* raises nothing and returns (0, len(text)).
C7_MissingDelimiters ==
    \A i \in 1 .. Len(calls) :
        LET c == calls[i]
            spans == EnclosingSpans(c.args.code, c.args.ix, c.args.delimiters)
        IN  (c.fn = "containing_block" /\ spans = {})
                => IF c.args.require_delim
                   THEN c.ret = SyntaxError
                   ELSE c.ret = Block(0, Len(c.args.code))

----------------------------------------------------------------------------
(* parse_ellipsis *)

EllipsisToken == <<"E", "l", "l", "i", "p", "s", "i", "s">>
SeparatedEllipsis == <<",">> \o EllipsisToken \o <<",">>
StepKeyword == <<",", " ", "s", "t", "e", "p", "=">>
EllipsisRange == <<"(", "e", "l", "l", "i", "p", "s", "i", "s", "_", "r", "a", "n", "g", "e", "(">>
EllipsisIter == <<"(", "e", "l", "l", "i", "p", "s", "i", "s", "_", "i", "t", "e", "r", "(">>

\* a result that is a text
Text(s) == [kind |-> "ok", text |-> s]

\* the end of the run of white space that starts at position j
RECURSIVE SkipBlank(_, _)
SkipBlank(s, j) ==
    IF j < Len(s) /\ s[j + 1] \in Blank THEN SkipBlank(s, j + 1) ELSE j

\* re.sub(r',\s*,', ',', s): one pass, left to right, matches do not overlap
RECURSIVE CollapseCommas(_)
CollapseCommas(s) ==
    LET hits == {i \in 0 .. (Len(s) - 1) :
                    /\ s[i + 1] = ","
                    /\ LET j == SkipBlank(s, i + 1)
                       IN  j < Len(s) /\ s[j + 1] = ","}
    IN  IF hits = {} THEN s
        ELSE LET i == SetMin(hits)
                 j == SkipBlank(s, i + 1)
             IN  Slice(s, 0, i) \o <<",">> \o CollapseCommas(SliceFrom(s, j + 1))

\* an argument list in which only the first marker is rewritten
ArgumentsFirstMarkerOnly(content, preparse_step) ==
    LET ix == Find(content, <<".", ".">>, 0)
        first == IF ix = -1 THEN content
                 ELSE Slice(content, 0, ix) \o SeparatedEllipsis
                          \o SliceFrom(content, ix + 2)
        collapsed == CollapseCommas(first)
    IN  IF preparse_step THEN Replace(collapsed, <<";">>, StepKeyword)
        ELSE collapsed

\* the argument list of the range-builder call
Arguments(content, preparse_step) ==
    LET dots == Replace(Replace(content, <<".", ".", ".">>, SeparatedEllipsis),
                        <<".", ".">>, SeparatedEllipsis)
        collapsed == CollapseCommas(dots)
    IN  IF preparse_step THEN Replace(collapsed, <<";">>, StepKeyword)
        ELSE collapsed

\* "(ellipsis_%s(" % range_or_iter
RangeOrIter(opening) == IF opening = "[" THEN EllipsisRange ELSE EllipsisIter

RECURSIVE parse_ellipsis(_, _)
parse_ellipsis(s, preparse_step) ==
    LET ix == Find(s, <<".", ".">>, 0)
    IN  IF ix = -1 THEN Text(s)
        ELSE IF ix = 0 THEN SyntaxError
        ELSE IF PyAt(s, ix - 1) = "."
        THEN parse_ellipsis(Slice(s, 0, ix - 1) \o EllipsisToken
                                \o SliceFrom(s, ix + 2), preparse_step)
        ELSE IF Len(s) >= ix + 3 /\ PyAt(s, ix + 2) = "."
        THEN parse_ellipsis(Slice(s, 0, ix) \o EllipsisToken
                                \o SliceFrom(s, ix + 3), preparse_step)
        ELSE LET b == containing_block(s, ix, EllipsisDelimiters, TRUE)
             IN  IF b.kind # "ok" THEN SyntaxError
                 ELSE parse_ellipsis(
                          Slice(s, 0, b.start)
                              \o RangeOrIter(PyAt(s, b.start))
                              \o Arguments(Slice(s, b.start + 1, b.end - 1),
                                           preparse_step)
                              \o <<")", ")">>
                              \o SliceFrom(s, b.end),
                          preparse_step)

----------------------------------------------------------------------------
(* A caller of parse_ellipsis on one text *)

MaxEllipsisPieces == 6

EllipsisPieces == {<<"[">>, <<"]">>, <<"(">>, <<")">>, <<"x">>, <<".", ".">>,
                   <<",">>, <<";">>}

EllipsisCall(s, preparse_step) ==
    [fn |-> "parse_ellipsis",
     args |-> [code |-> s, preparse_step |-> preparse_step],
     ret |-> parse_ellipsis(s, preparse_step)]

EllipsisInit ==
    /\ pc = "first"
    /\ code \in TextsUpTo(EllipsisPieces, MaxEllipsisPieces)
    /\ state = NoState
    /\ calls = <<>>
    /\ quote_state = NoState
    /\ implicit_mul_level = DefaultLevel

\* parse_ellipsis(code): preparse_step is True
EllipsisWithStep ==
    /\ pc = "first"
    /\ calls' = <<EllipsisCall(code, TRUE)>>
    /\ pc' = "done"
    /\ UNCHANGED <<code, state, quote_state, implicit_mul_level>>

\* parse_ellipsis(code, preparse_step=False), as preparse calls it
EllipsisWithoutStep ==
    /\ pc = "first"
    /\ calls' = <<EllipsisCall(code, FALSE)>>
    /\ pc' = "done"
    /\ UNCHANGED <<code, state, quote_state, implicit_mul_level>>

EllipsisNext == EllipsisWithStep \/ EllipsisWithoutStep

SpecEllipsis == EllipsisInit /\ [][EllipsisNext]_vars

----------------------------------------------------------------------------
(* Properties of parse_ellipsis *)

\* the opening delimiters of s still open after its last character, innermost
\* first, or <<"!">> once a closing delimiter meets the wrong opening one
RECURSIVE StillOpen(_, _)
StillOpen(s, n) ==
    IF n = 0 THEN <<>>
    ELSE LET before == StillOpen(s, n - 1)
             c == s[n]
         IN  IF before = <<"!">> THEN before
             ELSE IF c \in {"(", "["} THEN <<c>> \o before
             ELSE IF c \in {")", "]"}
             THEN IF before # <<>> /\ Head(before) = (IF c = ")" THEN "(" ELSE "[")
                  THEN Tail(before) ELSE <<"!">>
             ELSE before

\* parentheses and square brackets are properly nested in s
WellNested(s) == StillOpen(s, Len(s)) = <<>>

\* the positions of the two-dot markers of s
Markers(s) == {i \in 0 .. (Len(s) - 2) : StartsAt(s, <<".", ".">>, i)}

\* s has two-dot markers only, no longer run of dots
TwoDotOnly(s) == Markers(s) # {} /\ ~Contains(s, <<".", ".", ".">>)

\* the smallest block of s around position m
SmallestBlock(s, m) ==
    LET spans == EnclosingSpans(s, m, EllipsisDelimiters)
    IN  CHOOSE sp \in spans : \A o \in spans : o[2] - o[1] >= sp[2] - sp[1]

\* the smallest blocks of the markers M of s that open with the delimiter c
BlocksOf(s, M, c) == {sp \in {SmallestBlock(s, m) : m \in M} : s[sp[1] + 1] = c}

\* the markers with no marker to their left in a block around them
LeadingMarkers(s) ==
    {m \in Markers(s) :
        \A l \in Markers(s) : l < m => m >= SmallestBlock(s, l)[2]}

\* every marker of s replaced by the separated Ellipsis token
RECURSIVE EveryMarkerSeparated(_)
EveryMarkerSeparated(s) ==
    IF s = <<>> THEN <<>>
    ELSE IF StartsAt(s, <<".", ".">>, 0)
    THEN SeparatedEllipsis \o EveryMarkerSeparated(SliceFrom(s, 2))
    ELSE <<Head(s)>> \o EveryMarkerSeparated(Tail(s))

\* the call that replaces the block sp of s
BuilderCall(s, sp, preparse_step) ==
    LET separated == CollapseCommas(EveryMarkerSeparated(Slice(s, sp[1] + 1, sp[2] - 1)))
    IN  (IF s[sp[1] + 1] = "[" THEN EllipsisRange ELSE EllipsisIter)
            \o (IF preparse_step THEN Replace(separated, <<";">>, StepKeyword)
                ELSE separated)
            \o <<")", ")">>

\* a parse_ellipsis call that returned a text for a properly nested text
\* with two-dot markers
Expanded(c) ==
    /\ c.fn = "parse_ellipsis"
    /\ WellNested(c.args.code)
    /\ TwoDotOnly(c.args.code)
    /\ c.ret.kind = "ok"

\* C8: for every two-dot marker inside a bracket or parenthesis block, the
\* smallest enclosing block is replaced by a range-builder call: the result
\* holds one '(ellipsis_range(' for every '[' block that is the smallest
\* block around a marker and one '(ellipsis_iter(' for every such '(' block.
C8_EveryMarkerBlock ==
    \A i \in 1 .. Len(calls) :
        LET c == calls[i]
            s == c.args.code
        IN  Expanded(c)
                => /\ Occurrences(c.ret.text, EllipsisRange)
                          = Cardinality(BlocksOf(s, Markers(s), "["))
                   /\ Occurrences(c.ret.text, EllipsisIter)
                          = Cardinality(BlocksOf(s, Markers(s), "("))

\* C8, amended: the smallest block around the leftmost marker is replaced by
\* a range-builder call ('(ellipsis_range(' for '[', '(ellipsis_iter(' for
\* '(') whose arguments are the block's content with every marker in it,
\* those of nested blocks included, replaced by ',Ellipsis,', ',\s*,'
\* collapsed in one pass and, with preparse_step, ';' replaced by ', step=';
\* only the markers with no marker to their left in a block around them get
\* a range-builder call for their smallest block, and no marker is left.
C8_LeftmostMarkerBlock ==
    \A i \in 1 .. Len(calls) :
        LET c == calls[i]
            s == c.args.code
        IN  Expanded(c)
                => /\ Contains(c.ret.text,
                               BuilderCall(s, SmallestBlock(s, SetMin(Markers(s))),
                                           c.args.preparse_step))
                   /\ Occurrences(c.ret.text, EllipsisRange)
                          = Cardinality(BlocksOf(s, LeadingMarkers(s), "["))
                   /\ Occurrences(c.ret.text, EllipsisIter)
                          = Cardinality(BlocksOf(s, LeadingMarkers(s), "("))
                   /\ Markers(c.ret.text) = {}
                   /\ Occurrences(c.ret.text, EllipsisToken)
                          = Cardinality(Markers(s))

\* a marker in a block nested in the block of a marker to its left has been
\* expanded
C8_Witness ==
    \E i \in 1 .. Len(calls) :
        /\ Expanded(calls[i])
        /\ LeadingMarkers(calls[i].args.code) # Markers(calls[i].args.code)
        /\ Cardinality({SmallestBlock(calls[i].args.code, m) :
                            m \in Markers(calls[i].args.code)}) > 1

----------------------------------------------------------------------------
(* preparse_numeric_literals *)

numeric_literal_prefix == <<"_", "s", "a", "g", "e", "_", "c", "o", "n", "s", "t", "_">>

LowerLetters == <<"a", "b", "c", "d", "e", "f", "g", "h", "i", "j", "k", "l", "m", "n", "o", "p", "q", "r", "s", "t", "u", "v", "w", "x", "y", "z">>
UpperLetters == <<"A", "B", "C", "D", "E", "F", "G", "H", "I", "J", "K", "L", "M", "N", "O", "P", "Q", "R", "S", "T", "U", "V", "W", "X", "Y", "Z">>

\* c.upper() for one character
ToUpper(c) ==
    IF c \in Lower
    THEN UpperLetters[CHOOSE k \in 1 .. 26 : LowerLetters[k] = c]
    ELSE c

\* s.upper()
UpperCase(s) == [k \in 1 .. Len(s) |-> ToUpper(s[k])]

HexDigits == Digits \cup {"a", "b", "c", "d", "e", "f", "A", "B", "C", "D", "E", "F"}
OctDigits == {"0", "1", "2", "3", "4", "5", "6", "7"}
BinDigits == {"0", "1"}

\* the character at position j (from 0) is a \w character
IsWordAt(s, j) == j >= 0 /\ j < Len(s) /\ s[j + 1] \in WordChars

\* \b matches at position j
WordBoundary(s, j) == IsWordAt(s, j - 1) # IsWordAt(s, j)

\* the end of the longest run of characters of set that starts at position j
RECURSIVE RunEnd(_, _, _)
RunEnd(s, j, set) ==
    IF j < Len(s) /\ s[j + 1] \in set THEN RunEnd(s, j + 1, set) ELSE j

\* the suffixes of all_num, in the order the alternation tries them
Postfixes == <<<<"r", "j">>, <<"r", "L">>, <<"j", "r">>, <<"L", "r">>,
               <<"j">>, <<"L">>, <<"r">>, <<>>>>

\* p matches at position j, letter case ignored (re.I)
MatchesIgnoreCase(s, p, j) ==
    /\ j + Len(p) <= Len(s)
    /\ \A k \in 1 .. Len(p) : ToUpper(s[j + k]) = ToUpper(p[k])

\* the end of (rj|rL|jr|Lr|j|L|r|)\b matched at position j, -1 if it fails
PostfixEnd(s, j) ==
    LET ok == {n \in 1 .. Len(Postfixes) :
                  /\ MatchesIgnoreCase(s, Postfixes[n], j)
                  /\ WordBoundary(s, j + Len(Postfixes[n]))}
    IN  IF ok = {} THEN -1 ELSE j + Len(Postfixes[SetMin(ok)])

\* the end of (e[-+]?\d+) matched at position j, -1 if it fails
ExponentEnd(s, j) ==
    IF j < Len(s) /\ s[j + 1] \in {"e", "E"}
    THEN LET k == IF j + 1 < Len(s) /\ s[j + 2] \in {"-", "+"} THEN j + 2 ELSE j + 1
             d == RunEnd(s, k, Digits)
         IN  IF d > k THEN d ELSE -1
    ELSE -1

\* the ends (e[-+]?\d+)? can reach from position j, the longest first
WithExponent(s, j) ==
    IF ExponentEnd(s, j) # -1 THEN <<ExponentEnd(s, j), j>> ELSE <<j>>

\* the ends float_num can reach from position i, in the order the
\* backtracking tries them; an end that leaves a digit behind a digit can
\* never be followed by the \b of all_num and is left out
FloatEnds(s, i) ==
    IF i < Len(s) /\ s[i + 1] \in Digits /\ WordBoundary(s, i)
    THEN LET d1 == RunEnd(s, i, Digits)
             d2 == RunEnd(s, d1 + 1, Digits)
             fracs == IF d1 < Len(s) /\ s[d1 + 1] = "."
                      THEN IF d2 > d1 + 1 THEN <<d2, d1 + 1, d1>>
                           ELSE <<d1 + 1, d1>>
                      ELSE <<d1>>
         IN  Join([k \in 1 .. Len(fracs) |-> WithExponent(s, fracs[k])])
    ELSE IF i + 1 < Len(s) /\ s[i + 1] = "." /\ s[i + 2] \in Digits
    THEN WithExponent(s, RunEnd(s, i + 1, Digits))
    ELSE <<>>

\* the ends hex_num, oct_num and bin_num can reach from position i
PrefixedEnds(s, i) ==
    IF i + 2 < Len(s) /\ s[i + 1] = "0" /\ WordBoundary(s, i)
    THEN LET set == IF s[i + 2] \in {"x", "X"} THEN HexDigits
                    ELSE IF s[i + 2] \in {"o", "O"} THEN OctDigits
                    ELSE IF s[i + 2] \in {"b", "B"} THEN BinDigits
                    ELSE {}
             r == RunEnd(s, i + 2, set)
         IN  IF r > i + 2 THEN <<r>> ELSE <<>>
    ELSE <<>>

NoMatch == [start |-> -1, num_end |-> -1, end |-> -1]

\* all_num_regex matched at position i: float_num first, then the prefixed
\* numerals (dec_num matches nothing float_num does not)
MatchAt(s, i) ==
    LET ends == FloatEnds(s, i) \o PrefixedEnds(s, i)
        ok == {k \in 1 .. Len(ends) : PostfixEnd(s, ends[k]) # -1}
    IN  IF ok = {} THEN NoMatch
        ELSE [start |-> i, num_end |-> ends[SetMin(ok)],
              end |-> PostfixEnd(s, ends[SetMin(ok)])]

\* the next match of all_num_regex.finditer at or after position from
NextMatch(s, from) ==
    LET hits == {i \in from .. (Len(s) - 1) : MatchAt(s, i) # NoMatch}
    IN  IF hits = {} THEN NoMatch ELSE MatchAt(s, SetMin(hits))

AllDigits(num) == num # <<>> /\ \A k \in 1 .. Len(num) : num[k] \in Digits

\* the dots left as the expression matched them
SettleDotsAsMatched(s, m, num, postfix) ==
    [skip |-> FALSE, start |-> m.start, end |-> m.end, num |-> num]

\* the numeral with its dots settled: the leading dot of an ellipsis and the
\* trailing dot of a method call are left out, a trailing dot that no \b
\* follows is taken in; skip when the match is an index like R.0
SettleDots(s, m, num, postfix) ==
    LET start == m.start
        end == m.end
        same == [skip |-> FALSE, start |-> start, end |-> end, num |-> num]
    IN  IF Contains(num, <<".">>)
        THEN IF start > 0 /\ num[1] = "."
             THEN IF PyAt(s, start - 1) = "."
                  THEN [same EXCEPT !.start = start + 1, !.num = Tail(num)]
                  ELSE IF PyAt(s, start - 1) \in WordChars \cup {"]", ")"}
                  THEN [same EXCEPT !.skip = TRUE]
                  ELSE same
             ELSE IF end < Len(s) /\ Last(num) = "."
                         /\ PyAt(s, end) \in Alpha \cup {"_"}
             THEN [same EXCEPT !.end = end - 1,
                               !.num = SubSeq(num, 1, Len(num) - 1)]
             ELSE same
        ELSE IF end < Len(s) /\ PyAt(s, end) = "." /\ postfix = <<>>
                    /\ AllDigits(num)
        THEN IF end + 1 = Len(s) \/ PyAt(s, end + 1) # "."
             THEN [same EXCEPT !.end = end + 1, !.num = num \o <<".">>]
             ELSE same
        ELSE same

\* a wrapper with no spelling rule: every numeral becomes an Integer
WrapAsInteger(num, postfix) ==
    <<"I", "n", "t", "e", "g", "e", "r", "(">> \o num \o <<")">>

\* num_make for a numeral with no raw and no long suffix
Wrap(num, postfix) ==
    IF Contains(num, <<".">>) \/ Contains(num, <<"e">>) \/ Contains(num, <<"E">>)
           \/ Contains(postfix, <<"J">>)
    THEN IF Contains(postfix, <<"J">>)
         THEN <<"C", "o", "m", "p", "l", "e", "x", "N", "u", "m", "b", "e", "r", "(", "0", ",", " ", "'">> \o num \o <<"'", ")">>
         ELSE <<"R", "e", "a", "l", "N", "u", "m", "b", "e", "r", "(", "'">> \o num \o <<"'", ")">>
    ELSE IF Len(num) > 3 /\ num[2] \in {"b", "B"}
    THEN <<"I", "n", "t", "e", "g", "e", "r", "(", "'">> \o SliceFrom(num, 2) \o <<"'", ",", " ", "2", ")">>
    ELSE IF Len(num) > 3 /\ num[2] \in {"o", "O"}
    THEN <<"I", "n", "t", "e", "g", "e", "r", "(", "'">> \o SliceFrom(num, 2) \o <<"'", ",", " ", "8", ")">>
    ELSE <<"I", "n", "t", "e", "g", "e", "r", "(">> \o num \o <<")">>

\* num_name for a numeral with no raw and no long suffix
Name(num, postfix) ==
    IF Contains(num, <<".">>) \/ Contains(num, <<"e">>) \/ Contains(num, <<"E">>)
           \/ Contains(postfix, <<"J">>)
    THEN numeric_literal_prefix
             \o Replace(Replace(Replace(num, <<".">>, <<"p">>), <<"-">>, <<"n">>),
                        <<"+">>, <<>>)
             \o (IF Contains(postfix, <<"J">>) THEN <<"j">> ELSE <<>>)
    ELSE numeric_literal_prefix \o num

\* the body of the loop over the matches, from the match m on
RECURSIVE NumericLoop(_, _, _, _, _, _)

\* a numeral with no raw and no long suffix, its dots settled as d says
NumericSettled(s, m, d, postfix, last, new_code, literals, extract) ==
    IF d.skip
    THEN NumericLoop(s, NextMatch(s, m.end), last, new_code, literals, extract)
    ELSE NumericLoop(s, NextMatch(s, m.end), d.end,
             new_code \o Slice(s, last, d.start)
                 \o (IF extract THEN Name(d.num, postfix) \o <<" ">>
                     ELSE Wrap(d.num, postfix)),
             DictPut(literals, Name(d.num, postfix), Wrap(d.num, postfix)),
             extract)

\* a raw numeral emitted with the suffix as it is written in the input
RawSpellingAsWritten(s, m, num, postfix) == Slice(s, m.start, m.end)

\* num_name = num_make = num + postfix.replace('R', ''), the postfix being
\* upper-cased
RawSpelling(s, m, num, postfix) == num \o Replace(postfix, <<"R">>, <<>>)

NumericStep(s, m, num, postfix, last, new_code, literals, extract) ==
    IF Contains(postfix, <<"R">>)
    THEN NumericLoop(s, NextMatch(s, m.end), m.end,
             new_code \o Slice(s, last, m.start)
                 \o RawSpelling(s, m, num, postfix)
                 \o (IF extract THEN <<" ">> ELSE <<>>),
             literals, extract)
    ELSE IF Contains(postfix, <<"L">>)
    THEN NumericLoop(s, NextMatch(s, m.end), last, new_code, literals, extract)
    ELSE NumericSettled(s, m, SettleDots(s, m, num, postfix), postfix, last,
                        new_code, literals, extract)

NumericLoop(s, m, last, new_code, literals, extract) ==
    IF m = NoMatch
    THEN [code |-> new_code \o SliceFrom(s, last), literals |-> literals]
    ELSE NumericStep(s, m, Slice(s, m.start, m.num_end),
                     UpperCase(Slice(s, m.num_end, m.end)), last, new_code,
                     literals, extract)

\* return code, literals when extract is true, else return code
NumericResult(r, extract) == IF extract THEN r ELSE r.code

\* preparse_numeric_literals(code, extract): the new code, with the dict of
\* the literals when extract is true
preparse_numeric_literals(s, extract) ==
    NumericResult(NumericLoop(s, NextMatch(s, 0), 0, <<>>, EmptyDict, extract),
                  extract)

----------------------------------------------------------------------------
(* A caller of preparse_numeric_literals on one text *)

MaxNumericPieces == 5

NumericPieces == {<<"2">>, <<"7">>, <<".">>, <<"e">>, <<"j">>, <<"-">>,
                  <<"/">>, <<" ">>, <<"x">>}

NumericCall(s, extract) ==
    [fn |-> "preparse_numeric_literals",
     args |-> [code |-> s, extract |-> extract],
     ret |-> preparse_numeric_literals(s, extract)]

NumericInit ==
    /\ pc = "first"
    /\ code \in TextsUpTo(NumericPieces, MaxNumericPieces)
    /\ state = NoState
    /\ calls = <<>>
    /\ quote_state = NoState
    /\ implicit_mul_level = DefaultLevel

\* preparse_numeric_literals(code): extract is False
NumericInline ==
    /\ pc = "first"
    /\ calls' = <<NumericCall(code, FALSE)>>
    /\ pc' = "done"
    /\ UNCHANGED <<code, state, quote_state, implicit_mul_level>>

NumericNext == NumericInline

SpecNumeric == NumericInit /\ [][NumericNext]_vars

----------------------------------------------------------------------------
(* Properties of preparse_numeric_literals in inline mode *)

\* t is a decimal integer numeral
IsDecimal(t) == t # <<>> /\ \A k \in 1 .. Len(t) : t[k] \in Digits

\* t is digits '.' digits with a digit on one side of the point at least
IsPointFloat(t) ==
    /\ Len(t) > 1
    /\ \E k \in 1 .. Len(t) :
          /\ t[k] = "."
          /\ \A n \in 1 .. Len(t) : n # k => t[n] \in Digits

\* t is a mantissa, 'e' or 'E', an optional sign and a decimal exponent
IsExponentFloat(t) ==
    \E k \in 2 .. (Len(t) - 1) :
        LET mantissa == SubSeq(t, 1, k - 1)
            exponent == SubSeq(t, k + 1, Len(t))
        IN  /\ t[k] \in {"e", "E"}
            /\ IsDecimal(mantissa) \/ IsPointFloat(mantissa)
            /\ \/ IsDecimal(exponent)
               \/ exponent[1] \in {"-", "+"} /\ IsDecimal(Tail(exponent))

IsReal(t) == IsPointFloat(t) \/ IsExponentFloat(t)

\* t is a decimal or real numeral followed by 'j' or 'J'
IsImaginary(t) ==
    /\ Len(t) > 1
    /\ Last(t) \in {"j", "J"}
    /\ LET digits == SubSeq(t, 1, Len(t) - 1)
       IN  IsDecimal(digits) \/ IsReal(digits)

IsNumeral(t) == IsDecimal(t) \/ IsReal(t) \/ IsImaginary(t)

\* s[a:b] stands alone: no identifier character and no '.' touches it
StandsAlone(s, a, b) ==
    /\ ~IsWordAt(s, a - 1)
    /\ a = 0 \/ s[a] # "."
    /\ ~IsWordAt(s, b)
    /\ b = Len(s) \/ s[b + 1] # "."

\* the end of the longest numeral of s that starts at position a and
\* stands alone, -1 if there is none
NumeralEnd(s, a) ==
    LET ends == {b \in (a + 1) .. Len(s) :
                    IsNumeral(Slice(s, a, b)) /\ StandsAlone(s, a, b)}
    IN  IF ends = {} THEN -1 ELSE SetMax(ends)

\* position p of s is inside an identifier
InIdentifier(s, p) ==
    \E a \in 0 .. p :
        /\ s[a + 1] \in Alpha \cup {"_"}
        /\ ~IsWordAt(s, a - 1)
        /\ \A k \in a .. p : IsWordAt(s, k)

\* every digit of s is part of a numeral that stands alone or of an
\* identifier
DigitsAreNumerals(s) ==
    \A p \in 0 .. (Len(s) - 1) :
        s[p + 1] \in Digits
            => \/ InIdentifier(s, p)
               \/ \E a \in 0 .. p : NumeralEnd(s, a) > p

\* the constructor call for the numeral t
Constructor(t) ==
    IF IsDecimal(t) THEN <<"I", "n", "t", "e", "g", "e", "r", "(">> \o t \o <<")">>
    ELSE IF IsImaginary(t)
    THEN <<"C", "o", "m", "p", "l", "e", "x", "N", "u", "m", "b", "e", "r", "(", "0", ",", " ", "'">> \o SubSeq(t, 1, Len(t) - 1) \o <<"'", ")">>
    ELSE <<"R", "e", "a", "l", "N", "u", "m", "b", "e", "r", "(", "'">> \o t \o <<"'", ")">>

\* s from position a on, every numeral replaced by its constructor call
RECURSIVE Wrapped(_, _)
Wrapped(s, a) ==
    IF a >= Len(s) THEN <<>>
    ELSE IF NumeralEnd(s, a) # -1
    THEN Constructor(Slice(s, a, NumeralEnd(s, a))) \o Wrapped(s, NumeralEnd(s, a))
    ELSE <<s[a + 1]>> \o Wrapped(s, a + 1)

\* C10: in inline mode every decimal integer numeral n becomes Integer(n),
\* every float or exponent numeral RealNumber('<spelling>') and every
\* imaginary numeral ComplexNumber(0, '<spelling>'), with the spelling of
\* the input, and every other character is left as it is.
C10_InlineWrapping ==
    \A i \in 1 .. Len(calls) :
        LET c == calls[i]
        IN  (/\ c.fn = "preparse_numeric_literals"
             /\ ~c.args.extract
             /\ DigitsAreNumerals(c.args.code))
                => c.ret = Wrapped(c.args.code, 0)

\* a text with an integer numeral and a real numeral has been rewritten
C10_Witness ==
    \E i \in 1 .. Len(calls) :
        LET s == calls[i].args.code
        IN  /\ calls[i].fn = "preparse_numeric_literals"
            /\ ~calls[i].args.extract
            /\ DigitsAreNumerals(s)
            /\ \E a \in 0 .. (Len(s) - 1) :
                  NumeralEnd(s, a) # -1 /\ IsDecimal(Slice(s, a, NumeralEnd(s, a)))
            /\ \E a \in 0 .. (Len(s) - 1) :
                  NumeralEnd(s, a) # -1 /\ IsReal(Slice(s, a, NumeralEnd(s, a)))
            /\ calls[i].ret # s

----------------------------------------------------------------------------
(* A caller of preparse_numeric_literals and of extract_numeric_literals   *)
(* on one text made of prefixed and suffixed numerals                       *)

MaxNumeralPieces == 4

NumeralPieces == {<<"0">>, <<"1">>, <<"7">>, <<"b">>, <<"B">>, <<"o">>,
                  <<"x">>, <<"e">>, <<"r">>, <<"R">>, <<"j">>, <<"L">>,
                  <<".">>, <<" ">>}

NumeralsInit ==
    /\ pc = "first"
    /\ code \in TextsUpTo(NumeralPieces, MaxNumeralPieces)
    /\ state = NoState
    /\ calls = <<>>
    /\ quote_state = NoState
    /\ implicit_mul_level = DefaultLevel

\* extract_numeric_literals(code): preparse_numeric_literals(code, True)
NumericExtract ==
    /\ pc = "first"
    /\ calls' = <<NumericCall(code, TRUE)>>
    /\ pc' = "done"
    /\ UNCHANGED <<code, state, quote_state, implicit_mul_level>>

NumeralsNext == NumericInline \/ NumericExtract

SpecNumerals == NumeralsInit /\ [][NumeralsNext]_vars

----------------------------------------------------------------------------
(* Properties of the prefixed numerals *)

\* c is a call of preparse_numeric_literals in inline mode
IsInline(c) == c.fn = "preparse_numeric_literals" /\ ~c.args.extract

\* t is '0', one of the two letters and at least one digit of the set
IsPrefixed(t, letters, digits) ==
    /\ Len(t) > 2
    /\ t[1] = "0"
    /\ t[2] \in letters
    /\ \A k \in 3 .. Len(t) : t[k] \in digits

\* Integer('<digits>', <base>)
IntegerInBase(digits, base) ==
    <<"I", "n", "t", "e", "g", "e", "r", "(", "'">> \o digits
        \o <<"'", ",", " ">> \o base \o <<")">>

\* C11: every binary numeral 0b<digits> becomes Integer('<digits>', 2),
\* every octal numeral 0o<digits> becomes Integer('<digits>', 8), for every
\* number of digits and either case of the prefix letter, and every
\* hexadecimal numeral becomes Integer(0x<digits>).
C11_BaseAwareWrapping ==
    \A i \in 1 .. Len(calls) :
        LET c == calls[i]
            t == c.args.code
        IN  IsInline(c) =>
                /\ IsPrefixed(t, {"b", "B"}, BinDigits)
                       => c.ret = IntegerInBase(SliceFrom(t, 2), <<"2">>)
                /\ IsPrefixed(t, {"o", "O"}, OctDigits)
                       => c.ret = IntegerInBase(SliceFrom(t, 2), <<"8">>)
                /\ IsPrefixed(t, {"x", "X"}, HexDigits)
                       => c.ret = <<"I", "n", "t", "e", "g", "e", "r", "(">>
                                      \o t \o <<")">>

----------------------------------------------------------------------------
(* Properties of the suffixed numerals *)

\* the new code a call returns, in either mode
CodeOf(c) == IF c.args.extract THEN c.ret.code ELSE c.ret

\* the new code of preparse_numeric_literals for the text t in the mode of c
CodeFor(t, extract) ==
    IF extract THEN preparse_numeric_literals(t, TRUE).code
    ELSE preparse_numeric_literals(t, FALSE)

\* t is a numeral without its suffix
IsBody(t) ==
    \/ IsDecimal(t)
    \/ IsReal(t)
    \/ IsPrefixed(t, {"b", "B"}, BinDigits)
    \/ IsPrefixed(t, {"o", "O"}, OctDigits)
    \/ IsPrefixed(t, {"x", "X"}, HexDigits)

\* a suffix with the raw letter, letter case ignored
IsRawSuffix(t) ==
    UpperCase(t) \in {<<"R">>, <<"R", "J">>, <<"J", "R">>, <<"R", "L">>,
                      <<"L", "R">>}

\* s[a:b] stands between blanks or the ends of s
BetweenBlanks(s, a, b) ==
    /\ a = 0 \/ s[a] = " "
    /\ b = Len(s) \/ s[b + 1] = " "

\* the suffix t with the raw letter removed
WithoutRaw(t) == SelectSeq(t, LAMBDA ch : ch \notin {"r", "R"})

\* s[a:b] is a body and the suffix s[b:b+n], between blanks
IsSuffixed(s, a, b, n) ==
    /\ IsBody(Slice(s, a, b))
    /\ BetweenBlanks(s, a, b + n)

\* the numeral s[a:b+n] of the call c is emitted as the text emitted, and
\* the text before it and the text after it as they are on their own
EmittedAs(c, a, b, n, emitted) ==
    CodeOf(c) = CodeFor(Slice(c.args.code, 0, a), c.args.extract)
                    \o emitted
                    \o CodeFor(SliceFrom(c.args.code, b + n), c.args.extract)

\* C12 as stated: a numeral with a raw suffix is emitted with its spelling
\* unchanged except that the raw letter is removed, and a numeral with a
\* long suffix and no raw suffix is left exactly as written.
C12_RawSuffixOnlyRemoved ==
    \A i \in 1 .. Len(calls) :
        LET c == calls[i]
            s == c.args.code
        IN  IsInline(c) =>
                \A a \in 0 .. Len(s), b \in 0 .. Len(s), n \in 1 .. 2 :
                    (a < b /\ b + n <= Len(s) /\ IsSuffixed(s, a, b, n)) =>
                        /\ IsRawSuffix(Slice(s, b, b + n))
                               => EmittedAs(c, a, b, n,
                                      Slice(s, a, b)
                                          \o WithoutRaw(Slice(s, b, b + n)))
                        /\ Slice(s, b, b + n) \in {<<"l">>, <<"L">>}
                               => EmittedAs(c, a, b, n, Slice(s, a, b + n))

\* C12 amended: a numeral with a raw suffix is emitted as its body followed
\* by the rest of the suffix in upper case (a blank after it in extraction
\* mode), is never wrapped and never entered in the map of the literals; a
\* numeral with a long suffix and no raw suffix is left exactly as written.
C12_RawSuffixRemovedRestUpper ==
    \A i \in 1 .. Len(calls) :
        LET c == calls[i]
            s == c.args.code
        IN  c.fn = "preparse_numeric_literals" =>
                \A a \in 0 .. Len(s), b \in 0 .. Len(s), n \in 1 .. 2 :
                    (a < b /\ b + n <= Len(s) /\ IsSuffixed(s, a, b, n)) =>
                        /\ IsRawSuffix(Slice(s, b, b + n))
                               => /\ EmittedAs(c, a, b, n,
                                      Slice(s, a, b)
                                          \o UpperCase(WithoutRaw(Slice(s, b, b + n)))
                                          \o (IF c.args.extract THEN <<" ">>
                                              ELSE <<>>))
                                  /\ (c.args.extract /\ a = 0 /\ b + n = Len(s))
                                         => c.ret.literals = EmptyDict
                        /\ Slice(s, b, b + n) \in {<<"l">>, <<"L">>}
                               => EmittedAs(c, a, b, n, Slice(s, a, b + n))

\* a numeral with the suffix jr has been emitted without the r and with J
C12_Witness ==
    /\ pc = "done"
    /\ IsInline(calls[1])
    /\ Len(code) > 2
    /\ IsSuffixed(code, 0, Len(code) - 2, 2)
    /\ SliceFrom(code, Len(code) - 2) = <<"j", "r">>
    /\ calls[1].ret = Slice(code, 0, Len(code) - 2) \o <<"J">>

----------------------------------------------------------------------------
(* A caller of preparse_numeric_literals on one text with dots *)

MaxDotPieces == 4

DotPieces == {<<"5">>, <<"7">>, <<".">>, <<"f">>, <<"j">>, <<"e">>, <<"r">>,
              <<")">>, <<"]">>, <<" ">>, <<"_">>}

DotsInit ==
    /\ pc = "first"
    /\ code \in TextsUpTo(DotPieces, MaxDotPieces)
    /\ state = NoState
    /\ calls = <<>>
    /\ quote_state = NoState
    /\ implicit_mul_level = DefaultLevel

SpecDots == DotsInit /\ [][NumericNext]_vars

----------------------------------------------------------------------------
(* Properties of the dot after and before a digit run *)

\* s[a:b] is a digit run that no identifier character and no '.' precedes,
\* and a '.' follows it
IsRunBeforeDot(s, a, b) ==
    /\ a < b
    /\ b < Len(s)
    /\ IsDecimal(Slice(s, a, b))
    /\ a = 0 \/ s[a] \notin WordChars \cup {"."}
    /\ s[b + 1] = "."

\* the character at position j of s, or no character after the end
CharAt(s, j) == IF j < Len(s) THEN <<s[j + 1]>> ELSE <<>>

\* the characters from position j on are an exponent or a suffix that ends
\* at a word boundary, which the numeral before them takes in
TakenAsNumeral(s, j) ==
    \E k \in 1 .. Len(WithExponent(s, j)) :
        /\ PostfixEnd(s, WithExponent(s, j)[k]) # -1
        /\ PostfixEnd(s, WithExponent(s, j)[k]) > j

\* the output of the call c starts with the text before position a as it is
\* rewritten on its own, followed by t
StartsWith(c, a, t) ==
    IsPrefix(CodeFor(Slice(c.args.code, 0, a), FALSE) \o t, c.ret)

\* the dot before an identifier start is left out of the numeral
DotOfMethodCall(c, a, b) ==
    StartsWith(c, a, Constructor(Slice(c.args.code, a, b)) \o <<".">>
                         \o CharAt(c.args.code, b + 1))

\* the first dot of an ellipsis is left out of the numeral
DotOfEllipsis(c, a, b) ==
    CharAt(c.args.code, b + 1) = <<".">>
        => StartsWith(c, a, Constructor(Slice(c.args.code, a, b)) \o <<".", ".">>)

\* a dot that neither an identifier character nor a dot follows is taken in
DotAbsorbed(c, a, b) ==
    (CharAt(c.args.code, b + 1) = <<>>
         \/ c.args.code[b + 2] \notin WordChars \cup {"."})
        => StartsWith(c, a, Constructor(Slice(c.args.code, a, b + 1))
                                \o CharAt(c.args.code, b + 1))

\* s[a:b] is '.' and a digit run, directly after ')' or ']' or after a
\* character of an identifier
IsIndexGroup(s, a, b) ==
    /\ a > 0
    /\ a + 1 < b
    /\ s[a + 1] = "."
    /\ IsDecimal(Slice(s, a + 1, b))
    /\ b = Len(s) \/ s[b + 1] \notin Digits
    /\ s[a] \in {")", "]"} \/ InIdentifier(s, a - 1)

\* a '.digits' group after an identifier character, ')' or ']' is left as
\* it is written
IndexGroupKept(c) ==
    \A a \in 0 .. Len(c.args.code), b \in 0 .. Len(c.args.code) :
        IsIndexGroup(c.args.code, a, b)
            => StartsWith(c, a, Slice(c.args.code, a, b))

\* the character after the dot starts an identifier
BeforeIdentifier(s, b) == b + 1 < Len(s) /\ s[b + 2] \in Alpha \cup {"_"}

\* C13 as stated: the character after the dot decides: before an identifier
\* start the dot is left out and the digits become an Integer, before
\* another dot the dot is left out, otherwise the dot is taken in and the
\* numeral becomes a RealNumber; a '.digits' group after an identifier
\* character, ')' or ']' is not rewritten.
C13_NextCharacterDecides ==
    \A i \in 1 .. Len(calls) :
        LET c == calls[i]
            s == c.args.code
        IN  IsInline(c) =>
                /\ \A a \in 0 .. Len(s), b \in 0 .. Len(s) :
                       IsRunBeforeDot(s, a, b) =>
                           /\ BeforeIdentifier(s, b) => DotOfMethodCall(c, a, b)
                           /\ DotOfEllipsis(c, a, b)
                           /\ DotAbsorbed(c, a, b)
                /\ IndexGroupKept(c)

\* C13 amended: as stated, but the dot before an identifier start is left
\* out only when the characters after the dot are not an exponent or a
\* suffix of the numeral; when they are, the dot is taken into the numeral
\* ('5.j' becomes ComplexNumber(0, '5.')).
C13_NextCharactersDecide ==
    \A i \in 1 .. Len(calls) :
        LET c == calls[i]
            s == c.args.code
        IN  IsInline(c) =>
                /\ \A a \in 0 .. Len(s), b \in 0 .. Len(s) :
                       IsRunBeforeDot(s, a, b) =>
                           /\ (BeforeIdentifier(s, b) /\ ~TakenAsNumeral(s, b + 1))
                                  => DotOfMethodCall(c, a, b)
                           /\ (BeforeIdentifier(s, b) /\ TakenAsNumeral(s, b + 1))
                                  => ~StartsWith(c, a, Constructor(Slice(s, a, b)))
                           /\ (SliceFrom(s, b + 1) \in {<<"j">>, <<"J">>})
                                  => StartsWith(c, a,
                                         Constructor(Slice(s, a, b + 2)))
                           /\ DotOfEllipsis(c, a, b)
                           /\ DotAbsorbed(c, a, b)
                /\ IndexGroupKept(c)

\* a digit run before '.f' has become an Integer followed by the method
\* call
C13_Witness ==
    /\ pc = "done"
    /\ IsInline(calls[1])
    /\ \E b \in 1 .. Len(code) :
           /\ IsRunBeforeDot(code, 0, b)
           /\ CharAt(code, b + 1) = <<"f">>
           /\ IsPrefix(<<"I", "n", "t", "e", "g", "e", "r", "(">>
                           \o Slice(code, 0, b) \o <<")", ".", "f">>,
                       calls[1].ret)

----------------------------------------------------------------------------
(* implicit_mul *)

keywords ==
    {<<"a", "n", "d">>,
     <<"d", "e", "l">>,
     <<"f", "r", "o", "m">>,
     <<"n", "o", "t">>,
     <<"w", "h", "i", "l", "e">>,
     <<"a", "s">>,
     <<"e", "l", "i", "f">>,
     <<"g", "l", "o", "b", "a", "l">>,
     <<"o", "r">>,
     <<"w", "i", "t", "h">>,
     <<"a", "s", "s", "e", "r", "t">>,
     <<"e", "l", "s", "e">>,
     <<"i", "f">>,
     <<"p", "a", "s", "s">>,
     <<"y", "i", "e", "l", "d">>,
     <<"b", "r", "e", "a", "k">>,
     <<"e", "x", "c", "e", "p", "t">>,
     <<"i", "m", "p", "o", "r", "t">>,
     <<"p", "r", "i", "n", "t">>,
     <<"c", "l", "a", "s", "s">>,
     <<"e", "x", "e", "c">>,
     <<"i", "n">>,
     <<"r", "a", "i", "s", "e">>,
     <<"c", "o", "n", "t", "i", "n", "u", "e">>,
     <<"f", "i", "n", "a", "l", "l", "y">>,
     <<"i", "s">>,
     <<"r", "e", "t", "u", "r", "n">>,
     <<"d", "e", "f">>,
     <<"f", "o", "r">>,
     <<"l", "a", "m", "b", "d", "a">>,
     <<"t", "r", "y">>}

no_mul_token == <<" ", "'", "'", "'", "_", "n", "o", "_", "m", "u", "l", "t", "_", "t", "o", "k", "e", "n", "_", "'", "'", "'", " ">>

\* the least element of a set of positions, -1 if there is none
Least(hits) == IF hits = {} THEN -1 ELSE SetMin(hits)

\* the end of \d+(?:\.\d+)? matched at position i, where a digit stands
NumberEnd(s, i) ==
    LET d == RunEnd(s, i, Digits)
    IN  IF d < Len(s) /\ s[d + 1] = "." /\ RunEnd(s, d + 1, Digits) > d + 1
        THEN RunEnd(s, d + 1, Digits)
        ELSE d

\* a digit stands at position i, after a \b
NumberStartsAt(s, i) == i < Len(s) /\ s[i + 1] \in Digits /\ WordBoundary(s, i)

\* re.sub(r'\b0x', '0' + no_mul_token + 'x', s), from position from on
RECURSIVE GuardHex(_, _)
GuardHex(s, from) ==
    LET i == Least({k \in from .. (Len(s) - 2) :
                                 WordBoundary(s, k) /\ StartsAt(s, <<"0", "x">>, k)})
    IN  IF i = -1 THEN SliceFrom(s, from)
        ELSE Slice(s, from, i) \o <<"0">> \o no_mul_token \o <<"x">>
                 \o GuardHex(s, i + 2)

\* re.sub(r'( *)time ', r'\1time ' + no_mul_token, s): the blanks before
\* 'time ' are matched and put back
GuardTime(s) ==
    Replace(s, <<"t", "i", "m", "e", " ">>, <<"t", "i", "m", "e", " ">> \o no_mul_token)

\* the end of \d+(?:\.\d+)?(?:e\d+)? matched at position i
RawNumberEnd(s, i) ==
    LET f == NumberEnd(s, i)
    IN  IF f < Len(s) /\ s[f + 1] = "e" /\ RunEnd(s, f + 1, Digits) > f + 1
        THEN RunEnd(s, f + 1, Digits)
        ELSE f

\* re.sub(r'\b(\d+(?:\.\d+)?(?:e\d+)?)([rR]\b)', r'\1' + no_mul_token + r'\2', s)
RECURSIVE GuardRaw(_, _)
GuardRaw(s, from) ==
    LET i == Least({k \in from .. (Len(s) - 1) :
                                 /\ NumberStartsAt(s, k)
                                 /\ RawNumberEnd(s, k) < Len(s)
                                 /\ s[RawNumberEnd(s, k) + 1] \in {"r", "R"}
                                 /\ WordBoundary(s, RawNumberEnd(s, k) + 1)})
    IN  IF i = -1 THEN SliceFrom(s, from)
        ELSE LET e == RawNumberEnd(s, i)
             IN  Slice(s, from, e) \o no_mul_token \o <<s[e + 1]>>
                     \o GuardRaw(s, e + 1)

\* re.sub(r'\b(\d+(?:\.\d+)?)e([-\d])', r'\1' + no_mul_token + 'e'
\*        + no_mul_token + r'\2', s)
RECURSIVE GuardExponent(_, _)
GuardExponent(s, from) ==
    LET i == Least({k \in from .. (Len(s) - 1) :
                                 /\ NumberStartsAt(s, k)
                                 /\ NumberEnd(s, k) + 1 < Len(s)
                                 /\ s[NumberEnd(s, k) + 1] = "e"
                                 /\ s[NumberEnd(s, k) + 2] \in Digits \cup {"-"}})
    IN  IF i = -1 THEN SliceFrom(s, from)
        ELSE LET f == NumberEnd(s, i)
             IN  Slice(s, from, f) \o no_mul_token \o <<"e">> \o no_mul_token
                     \o <<s[f + 2]>> \o GuardExponent(s, f + 2)

\* re.sub(r'(\%\(L\d+\))s', r'\1' + no_mul_token + 's' + no_mul_token, s)
RECURSIVE GuardLiteral(_, _)
GuardLiteral(s, from) ==
    LET close(k) == RunEnd(s, k + 3, Digits)
        i == Least({k \in from .. (Len(s) - 1) :
                                 /\ StartsAt(s, <<PCT, "(", "L">>, k)
                                 /\ close(k) > k + 3
                                 /\ StartsAt(s, <<")", "s">>, close(k))})
    IN  IF i = -1 THEN SliceFrom(s, from)
        ELSE Slice(s, from, close(i) + 1) \o no_mul_token \o <<"s">> \o no_mul_token
                 \o GuardLiteral(s, close(i) + 2)

NoProduct == [start |-> -1, left_end |-> -1, right_start |-> -1, end |-> -1]

\* the patterns that re_no_keyword is given:
\* "number" is r'\b((?:\d+(?:\.\d+)?)|(?:_sage_const_[0-9eEpn]*\b)) *([a-zA-Z_(]\w*)\b',
\* "paren" is r'(\)) *(\w+)', "space" is r'(\w+) +(\w+)'

\* the end of the first group matched at position i, -1 if it fails
LeftEnd(s, i, pattern) ==
    IF pattern = "number"
    THEN IF NumberStartsAt(s, i) THEN NumberEnd(s, i)
         ELSE IF WordBoundary(s, i) /\ StartsAt(s, numeric_literal_prefix, i)
         THEN IF WordBoundary(s, RunEnd(s, i + Len(numeric_literal_prefix),
                                        Digits \cup {"e", "E", "p", "n"}))
              THEN RunEnd(s, i + Len(numeric_literal_prefix),
                          Digits \cup {"e", "E", "p", "n"})
              ELSE -1
         ELSE -1
    ELSE IF pattern = "paren"
    THEN IF s[i + 1] = ")" THEN i + 1 ELSE -1
    ELSE IF s[i + 1] \in WordChars THEN RunEnd(s, i, WordChars) ELSE -1

\* the end of the second group, which starts at right_start, -1 if it fails
RightEnd(s, left_end, right_start, pattern) ==
    IF pattern = "number"
    THEN IF right_start < Len(s)
               /\ s[right_start + 1] \in Alpha \cup {"_", "("}
               /\ WordBoundary(s, RunEnd(s, right_start + 1, WordChars))
         THEN RunEnd(s, right_start + 1, WordChars) ELSE -1
    ELSE IF RunEnd(s, right_start, WordChars) > right_start
               /\ (pattern = "space" => right_start > left_end)
    THEN RunEnd(s, right_start, WordChars) ELSE -1

ProductOf(i, left_end, right_start, end) ==
    IF end = -1 THEN NoProduct
    ELSE [start |-> i, left_end |-> left_end, right_start |-> right_start,
          end |-> end]

ProductAfter(s, i, left_end, right_start, pattern) ==
    ProductOf(i, left_end, right_start,
              RightEnd(s, left_end, right_start, pattern))

ProductFrom(s, i, left_end, pattern) ==
    IF left_end = -1 THEN NoProduct
    ELSE ProductAfter(s, i, left_end, RunEnd(s, left_end, {" "}), pattern)

\* the match of the pattern at position i
ProductAt(s, i, pattern) == ProductFrom(s, i, LeftEnd(s, i, pattern), pattern)

\* left*right for every match, keyword or not
ProductOfAnyGroups(s, m) ==
    Slice(s, m.start, m.left_end) \o <<"*">> \o Slice(s, m.right_start, m.end)

\* left*right for the match m, the match as it is when a group is a keyword
Product(s, m) ==
    IF Slice(s, m.start, m.left_end) \notin keywords
           /\ Slice(s, m.right_start, m.end) \notin keywords
    THEN Slice(s, m.start, m.left_end) \o <<"*">> \o Slice(s, m.right_start, m.end)
    ELSE Slice(s, m.start, m.end)

\* one round of re_no_keyword: every match, from position from on, whose
\* two groups are no keywords becomes left*right
RECURSIVE ProductRound(_, _, _)
ProductStep(s, from, m, pattern) ==
    Slice(s, from, m.start) \o Product(s, m) \o ProductRound(s, m.end, pattern)

ProductFromHit(s, from, i, pattern) ==
    IF i = -1 THEN SliceFrom(s, from)
    ELSE ProductStep(s, from, ProductAt(s, i, pattern), pattern)

ProductRound(s, from, pattern) ==
    ProductFromHit(s, from,
                   Least({k \in from .. (Len(s) - 1) :
                                       ProductAt(s, k, pattern) # NoProduct}),
                   pattern)

\* re_no_keyword(pattern, code): two rounds, because matches do not overlap
re_no_keyword(pattern, s) == ProductRound(ProductRound(s, 0, pattern), 0, pattern)

\* re.sub(r'\) *\(', ')*(', s)
RECURSIVE MultiplyGroups(_, _)
MultiplyGroups(s, from) ==
    LET open(k) == RunEnd(s, k + 1, {" "})
        i == Least({k \in from .. (Len(s) - 1) :
                                 /\ s[k + 1] = ")"
                                 /\ open(k) < Len(s)
                                 /\ s[open(k) + 1] = "("})
    IN  IF i = -1 THEN SliceFrom(s, from)
        ELSE Slice(s, from, i) \o <<")", "*", "(">> \o MultiplyGroups(s, open(i) + 1)

\* a failed operation: the exception it raises
Raised(exception) == [kind |-> exception]

\* the rewriting of each level, on the skeleton c
MulLevel1(c, level) ==
    IF level >= 1
    THEN re_no_keyword("number",
             GuardExponent(GuardRaw(GuardTime(GuardHex(c, 0)), 0), 0))
    ELSE c

MulLevel2(c, level) ==
    IF level >= 2 THEN re_no_keyword("paren", GuardLiteral(c, 0)) ELSE c

MulLevel3(c, level) == IF level >= 3 THEN re_no_keyword("space", c) ELSE c

MulLevel10(c, level) == IF level >= 10 THEN MultiplyGroups(c, 0) ELSE c

\* code % literals at the end of implicit_mul
MulRestored(formatted) ==
    IF formatted.ok THEN Text(formatted.text) ELSE Raised("FormatError")

MulStripped(stripped, level) ==
    MulRestored(Format(
        Replace(MulLevel10(MulLevel3(MulLevel2(MulLevel1(stripped.skeleton,
                    level), level), level), level),
                no_mul_token, <<>>),
        stripped.literals))

\* implicit_mul(code, level): the text, or the exception raised; below
\* level 1 no_mul_token is not assigned when code.replace reads it
implicit_mul(s, level) ==
    IF level < 1 THEN Raised("UnboundLocalError")
    ELSE Only({MulStripped(stripped, level) :
               stripped \in {strip_string_literals(s, NoState)}})

----------------------------------------------------------------------------
(* A caller of implicit_mul on one text, at every level of the docstring *)

MaxMulPieces == 4

MulPieces == {<<"2">>, <<"x">>, <<" ">>, <<"(">>, <<")">>, <<"0">>, <<"b">>,
              <<"X">>, <<"e">>, <<"+">>, <<"r">>}

\* the levels the docstring of implicit_mul lists
MulLevels == {0, 1, 2, 3, 10}

MulInit ==
    /\ pc = "first"
    /\ code \in TextsUpTo(MulPieces, MaxMulPieces)
    /\ state = NoState
    /\ calls = <<>>
    /\ quote_state = NoState
    /\ implicit_mul_level = DefaultLevel

\* implicit_mul(code, level)
ImplicitMul ==
    /\ pc = "first"
    /\ \E level \in MulLevels :
           \E r \in {implicit_mul(code, level)} :
               calls' = <<[fn |-> "implicit_mul",
                           args |-> [code |-> code, level |-> level],
                           ret |-> r]>>
    /\ pc' = "done"
    /\ UNCHANGED <<code, state, quote_state, implicit_mul_level>>

SpecMul == MulInit /\ [][ImplicitMul]_vars

----------------------------------------------------------------------------
(* Properties of implicit_mul *)

IsImplicitMul(c) == c.fn = "implicit_mul"

\* the characters of t before position j that are neither '*' nor blank
InkBefore(t, j) == Cardinality({k \in 1 .. j : t[k] \notin {"*", " "}})

\* where the '*' of t stand: for each the number of characters, blanks and
\* '*' left out, before it
StarsOf(t) == {InkBefore(t, j) : j \in {k \in 1 .. Len(t) : t[k] = "*"}}

\* every '*' of the result at the level of c is in the result at level too
StarsKeptAt(c, level) ==
    LET higher == implicit_mul(c.args.code, level)
    IN  (c.ret.kind = "ok" /\ higher.kind = "ok")
            => StarsOf(c.ret.text) \subseteq StarsOf(higher.text)

\* C16: with level 0 implicit_mul returns its input unchanged; with
\* level >= 1 a '*' is inserted between a numeral and an identifier or an
\* opening parenthesis that follows it directly; and every '*' inserted at
\* a level is inserted at every higher level.
C16_LevelsOfMultiplication ==
    \A i \in 1 .. Len(calls) :
        LET c == calls[i]
        IN  IsImplicitMul(c) =>
                /\ c.args.level = 0 => c.ret = Text(c.args.code)
                /\ (c.args.level >= 1 /\ c.args.code = <<"2", "x">>)
                       => c.ret = Text(<<"2", "*", "x">>)
                /\ (c.args.level >= 1 /\ c.args.code = <<"2", "(", "x", ")">>)
                       => c.ret = Text(<<"2", "*", "(", "x", ")">>)
                /\ \A level \in MulLevels :
                       level > c.args.level => StarsKeptAt(c, level)

\* s[a:b] is a numeral between blanks: a body, or a body and a raw suffix
IsNumeralToken(s, a, b) ==
    /\ a < b
    /\ BetweenBlanks(s, a, b)
    /\ \/ IsBody(Slice(s, a, b))
       \/ /\ a < b - 1
          /\ s[b] \in {"r", "R"}
          /\ IsBody(Slice(s, a, b - 1))

\* C18: at every level >= 1 no '*' is inserted inside a numeral: every
\* numeral of the input, with its prefix, exponent and raw suffix, is in
\* the output unbroken.
C18_NumeralsUnbroken ==
    \A i \in 1 .. Len(calls) :
        LET c == calls[i]
            s == c.args.code
        IN  (IsImplicitMul(c) /\ c.args.level >= 1 /\ c.ret.kind = "ok") =>
                \A a \in 0 .. Len(s), b \in 0 .. Len(s) :
                    IsNumeralToken(s, a, b)
                        => Contains(c.ret.text, Slice(s, a, b))

----------------------------------------------------------------------------
(* A caller of implicit_mul on one text with keywords *)

MaxKeywordPieces == 4

KeywordPieces == {<<"a">>, <<"2">>, <<" ">>, <<"(">>, <<")">>, <<"i">>,
                  <<"x">>, <<"i", "f">>, <<"i", "n">>}

KeywordsInit ==
    /\ pc = "first"
    /\ code \in TextsUpTo(KeywordPieces, MaxKeywordPieces)
    /\ state = NoState
    /\ calls = <<>>
    /\ quote_state = NoState
    /\ implicit_mul_level = DefaultLevel

SpecKeywords == KeywordsInit /\ [][ImplicitMul]_vars

----------------------------------------------------------------------------
(* Properties of implicit_mul next to keywords *)

\* the start of the run of identifier characters that ends at position i
RECURSIVE RunStart(_, _)
RunStart(s, i) == IF IsWordAt(s, i - 1) THEN RunStart(s, i - 1) ELSE i

\* the token that ends at position i and the token that starts at position
\* k: runs of identifier characters, as the groups of the patterns are
TokenBefore(s, i) == Slice(s, RunStart(s, i), i)
TokenAfter(s, k) == Slice(s, k, RunEnd(s, k, WordChars))

\* s[i:k] is blank
BlankBetween(s, i, k) == \A n \in (i + 1) .. k : s[n] = " "

\* t from position j on is s from position i on, but for '*' put in the
\* place of the blanks (or of nothing) between two tokens that are no
\* keywords
RECURSIVE Multiplied(_, _, _, _)
Multiplied(s, t, i, j) ==
    IF j = Len(t) THEN i = Len(s)
    ELSE \/ /\ i < Len(s)
            /\ s[i + 1] = t[j + 1]
            /\ Multiplied(s, t, i + 1, j + 1)
         \/ /\ t[j + 1] = "*"
            /\ \E k \in i .. Len(s) :
                   /\ BlankBetween(s, i, k)
                   /\ TokenBefore(s, i) \notin keywords
                   /\ TokenAfter(s, k) \notin keywords
                   /\ Multiplied(s, t, k, j + 1)

\* C17: at every level implicit_mul inserts no '*' where the token on the
\* left or on the right is a keyword: the output is the input with '*' in
\* the place of the blanks between tokens that are no keywords, so every
\* keyword and the blanks around it are as in the input.
C17_KeywordsUntouched ==
    \A i \in 1 .. Len(calls) :
        LET c == calls[i]
        IN  (IsImplicitMul(c) /\ c.ret.kind = "ok")
                => Multiplied(c.args.code, c.ret.text, 0, 0)

\* a text with the keyword 'in' after a blank has got a '*' elsewhere and
\* kept the blank and the keyword
C17_Witness ==
    /\ pc = "done"
    /\ IsImplicitMul(calls[1])
    /\ calls[1].args.level >= 3
    /\ calls[1].ret.kind = "ok"
    /\ IsSuffix(<<" ", "i", "n">>, code)
    /\ Len(code) > 3
    /\ IsWordAt(code, Len(code) - 4)
    /\ Contains(calls[1].ret.text, <<"*">>)
    /\ IsSuffix(<<" ", "i", "n">>, calls[1].ret.text)

----------------------------------------------------------------------------
(* The rewrite stages of preparse *)

\* s.lstrip(), s.rstrip(), s.strip()
RECURSIVE LStrip(_)
LStrip(s) == IF s # <<>> /\ Head(s) \in Blank THEN LStrip(Tail(s)) ELSE s

RECURSIVE RStrip(_)
RStrip(s) ==
    IF s # <<>> /\ Last(s) \in Blank THEN RStrip(SubSeq(s, 1, Len(s) - 1)) ELSE s

Strip(s) == LStrip(RStrip(s))

\* s.split(sep) for a one-character sep
RECURSIVE Split(_, _)
Split(s, sep) ==
    LET i == Find(s, <<sep>>, 0)
    IN  IF i = -1 THEN <<s>> ELSE <<Slice(s, 0, i)>> \o Split(SliceFrom(s, i + 1), sep)

\* sep.join(parts)
RECURSIVE JoinWith(_, _)
JoinWith(parts, sep) ==
    IF parts = <<>> THEN <<>>
    ELSE IF Len(parts) = 1 THEN parts[1]
    ELSE parts[1] \o sep \o JoinWith(Tail(parts), sep)

\* [v.strip() for v in s.split(',')]
StrippedNames(s) == LET parts == Split(s, ",") IN [k \in 1 .. Len(parts) |-> Strip(parts[k])]

\* the end of the longest run of characters outside set that starts at j
RECURSIVE RunEndNot(_, _, _)
RunEndNot(s, j, set) ==
    IF j < Len(s) /\ s[j + 1] \notin set THEN RunEndNot(s, j + 1, set) ELSE j

\* strip_prompts(line)
strip_prompts(line) ==
    IF StartsAt(line, <<"s", "a", "g", "e", ":">>, 0) THEN LStrip(SliceFrom(line, 5))
    ELSE IF StartsAt(line, <<">", ">", ">">>, 0) THEN LStrip(SliceFrom(line, 3))
    ELSE line

\* the end of the first group of r'([_a-zA-Z]\w*|[)\]])\.(\d+)' matched at
\* position i, -1 if the pattern fails there
IndexedAt(s, i) ==
    LET dot == IF s[i + 1] \in Alpha \cup {"_"} THEN RunEnd(s, i, WordChars)
               ELSE IF s[i + 1] \in {")", "]"} THEN i + 1
               ELSE -1
    IN  IF dot # -1 /\ dot < Len(s) /\ s[dot + 1] = "."
              /\ RunEnd(s, dot + 1, Digits) > dot + 1
        THEN dot ELSE -1

\* re.sub(r'([_a-zA-Z]\w*|[)\]])\.(\d+)', r'\1.gen(\2)', s)
RECURSIVE IndexToGen(_, _)
IndexToGen(s, from) ==
    LET i == Least({k \in from .. (Len(s) - 1) : IndexedAt(s, k) # -1})
    IN  IF i = -1 THEN SliceFrom(s, from)
        ELSE LET dot == IndexedAt(s, i)
                 end == RunEnd(s, dot + 1, Digits)
             IN  Slice(s, from, dot) \o <<".", "g", "e", "n", "(">> \o Slice(s, dot + 1, end)
                     \o <<")">> \o IndexToGen(s, end)

\* the carets remapped and the stars left alone
RemapCaretOnly(s) == Replace(s, <<"^">>, <<"*", "*">>)

\* L.replace('^', '**').replace('****', '^')
RemapCaret(s) == Replace(Replace(s, <<"^">>, <<"*", "*">>), <<"*", "*", "*", "*">>, <<"^">>)

\* ';%s;' % L.replace('\n', ';\n;')
WithSentinels(s) == <<";">> \o Replace(s, <<NL>>, <<";", NL, ";">>) \o <<";">>

\* L.replace(';\n;', '\n')[1:-1]
WithoutSentinels(s) ==
    LET r == Replace(s, <<";", NL, ";">>, <<NL>>)
    IN  SubSeq(r, 2, Len(r) - 1)

\* the position of the character that follows 'time' and its blanks when
\* r';(\s*)time +(\w)' matches at position i, -1 if it fails
TimedAt(s, i) ==
    LET a == RunEnd(s, i + 1, Blank)
        sp == RunEnd(s, a + 4, {" "})
    IN  IF s[i + 1] = ";" /\ StartsAt(s, <<"t", "i", "m", "e">>, a)
              /\ sp > a + 4 /\ sp < Len(s) /\ s[sp + 1] \in WordChars
        THEN sp ELSE -1

\* re.sub(r';(\s*)time +(\w)', r';time;\1\2', s)
RECURSIVE SeparateTime(_, _)
SeparateTime(s, from) ==
    LET i == Least({k \in from .. (Len(s) - 1) : TimedAt(s, k) # -1})
    IN  IF i = -1 THEN SliceFrom(s, from)
        ELSE LET sp == TimedAt(s, i)
             IN  Slice(s, from, i) \o <<";", "t", "i", "m", "e", ";">>
                     \o Slice(s, i + 1, RunEnd(s, i + 1, Blank)) \o <<s[sp + 1]>>
                     \o SeparateTime(s, sp + 1)

TimeMark == <<";", "t", "i", "m", "e", ";">>
TimeStart == <<"_", "_", "t", "i", "m", "e", "_", "_", "=", "m", "i", "s", "c", ".", "c", "p", "u", "t", "i", "m", "e", "(", ")", ";", " ", "_", "_", "w", "a", "l", "l", "_", "_", "=", "m", "i", "s", "c", ".", "w", "a", "l", "l", "t", "i", "m", "e", "(", ")", ";", " ">>
TimeReport == <<";", " ", "p", "r", "i", "n", "t", " ", "\"", "T", "i", "m", "e", ":", " ", "C", "P", "U", " ", "%", "%", ".", "2", "f", " ", "s", ",", " ", "W", "a", "l", "l", ":", " ", "%", "%", ".", "2", "f", " ", "s", "\"", "%", "%", "(", "m", "i", "s", "c", ".", "c", "p", "u", "t", "i", "m", "e", "(", "_", "_", "t", "i", "m", "e", "_", "_", ")", ",", " ", "m", "i", "s", "c", ".", "w", "a", "l", "l", "t", "i", "m", "e", "(", "_", "_", "w", "a", "l", "l", "_", "_", ")", ")">>

\* re.sub(r';time;(\s*)(\S[^;]*)', r';\1__time__=...; \2; print ...', s)
RECURSIVE WrapTime(_, _)
WrapTime(s, from) ==
    LET i == Least({k \in from .. (Len(s) - 1) :
                                 /\ StartsAt(s, TimeMark, k)
                                 /\ RunEnd(s, k + 6, Blank) < Len(s)})
    IN  IF i = -1 THEN SliceFrom(s, from)
        ELSE LET a == RunEnd(s, i + 6, Blank)
                 e == RunEndNot(s, a + 1, {";"})
             IN  Slice(s, from, i) \o <<";">> \o Slice(s, i + 6, a) \o TimeStart
                     \o Slice(s, a, e) \o TimeReport \o WrapTime(s, e)

\* the position of the character r'\\\s*([^\t ;#])' captures when it matches
\* at position i, -1 if it fails: after the blanks if that character is
\* none of tab, space, ';' and '#', else the last blank that is no tab and
\* no space
OperandAt(s, i) ==
    LET a == RunEnd(s, i + 1, Blank)
        back == {k \in (i + 1) .. (a - 1) : s[k + 1] \notin {"\t", " "}}
    IN  IF s[i + 1] # BSL THEN -1
        ELSE IF a < Len(s) /\ s[a + 1] \notin {"\t", " ", ";", "#"} THEN a
        ELSE IF back # {} THEN SetMax(back)
        ELSE -1

\* re.sub(r'\\\s*([^\t ;#])', r' * BackslashOperator() * \1', s)
RECURSIVE BackslashToOperator(_, _)
BackslashToOperator(s, from) ==
    LET i == Least({k \in from .. (Len(s) - 1) : OperandAt(s, k) # -1})
    IN  IF i = -1 THEN SliceFrom(s, from)
        ELSE LET a == OperandAt(s, i)
             IN  Slice(s, from, i) \o <<" ", "*", " ", "B", "a", "c", "k", "s", "l", "a", "s", "h", "O", "p", "e", "r", "a", "t", "o", "r", "(", ")", " ", "*", " ">> \o <<s[a + 1]>>
                     \o BackslashToOperator(s, a + 1)

----------------------------------------------------------------------------
(* preparse_generators *)

NoGenerators == [start |-> -1]

\* the match of r';(\s*)([a-zA-Z_]\w*)\.<([^>]+)> *((?:,[\w, ]+)?)= *([^;#]+)'
\* at position i
GeneratorsAt(s, i) ==
    LET a == RunEnd(s, i + 1, Blank)
        b == RunEnd(s, a, WordChars)
        g == Find(s, <<">">>, b + 2)
        sp == RunEnd(s, g + 1, {" "})
        others == RunEnd(s, sp + 1, WordChars \cup {",", " "})
        eq == IF sp < Len(s) /\ s[sp + 1] = "=" THEN sp
              ELSE IF sp < Len(s) /\ s[sp + 1] = "," /\ others > sp + 1
                        /\ others < Len(s) /\ s[others + 1] = "="
              THEN others
              ELSE -1
        sp2 == RunEnd(s, eq + 1, {" "})
        end == RunEndNot(s, sp2, {";", "#"})
    IN  IF /\ s[i + 1] = ";"
           /\ a < Len(s) /\ s[a + 1] \in Alpha \cup {"_"}
           /\ StartsAt(s, <<".", "<">>, b)
           /\ g > b + 2
           /\ eq # -1
           /\ end > sp2 \/ sp2 > eq + 1
        THEN [start |-> i, ident |-> Slice(s, i + 1, a), obj |-> Slice(s, a, b),
              gens |-> Slice(s, b + 2, g), other_objs |-> Slice(s, sp, eq),
              constructor |-> IF end > sp2 THEN Slice(s, sp2, end) ELSE <<" ">>,
              end |-> end]
        ELSE NoGenerators

\* the names handed to the constructor with a comma before them whether the
\* call has arguments or not
WithNamesAfterComma(constructor, gens) ==
    LET c == RStrip(constructor)
    IN  IF c = <<>> THEN Raised("IndexError")
        ELSE IF Last(c) = ")"
        THEN LET opening == RFind(c, <<"(">>)
                 comma == <<",", " ">>
             IN  IF opening = -1 THEN Raised("ValueError")
                 ELSE Text(SubSeq(c, 1, Len(c) - 1) \o comma \o <<"n", "a", "m", "e", "s", "=", "(", "'">>
                               \o JoinWith(gens, <<"'", ",", " ", "'">>) \o <<"'", ",", ")", ")">>)
        ELSE IF Last(c) = "]"
        THEN LET opening == RFind(c, <<"[">>)
                 closing == Find(c, <<"]">>, opening)
             IN  IF opening = -1 THEN Raised("ValueError")
                 ELSE IF Strip(Slice(c, opening + 1, closing)) = <<>>
                 THEN Text(Slice(c, 0, opening + 1) \o <<"'">>
                               \o JoinWith(gens, <<",", " ">>) \o <<"'">>
                               \o SliceFrom(c, closing))
                 ELSE Text(c)
        ELSE Text(c)

\* the constructor with the names of the generators handed to it
WithNames(constructor, gens) ==
    LET c == RStrip(constructor)
    IN  IF c = <<>> THEN Raised("IndexError")
        ELSE IF Last(c) = ")"
        THEN LET opening == RFind(c, <<"(">>)
                 comma == IF Strip(Slice(c, opening + 1, Len(c) - 1)) # <<>>
                          THEN <<",", " ">> ELSE <<>>
             IN  IF opening = -1 THEN Raised("ValueError")
                 ELSE Text(SubSeq(c, 1, Len(c) - 1) \o comma \o <<"n", "a", "m", "e", "s", "=", "(", "'">>
                               \o JoinWith(gens, <<"'", ",", " ", "'">>) \o <<"'", ",", ")", ")">>)
        ELSE IF Last(c) = "]"
        THEN LET opening == RFind(c, <<"[">>)
                 closing == Find(c, <<"]">>, opening)
             IN  IF opening = -1 THEN Raised("ValueError")
                 ELSE IF Strip(Slice(c, opening + 1, closing)) = <<>>
                 THEN Text(Slice(c, 0, opening + 1) \o <<"'">>
                               \o JoinWith(gens, <<",", " ">>) \o <<"'">>
                               \o SliceFrom(c, closing))
                 ELSE Text(c)
        ELSE Text(c)

\* the text that replaces the match m
GeneratorsStatement(m) ==
    LET gens == StrippedNames(m.gens)
        constructor == WithNames(m.constructor, gens)
    IN  IF constructor.kind # "ok" THEN constructor
        ELSE Text(<<";">> \o m.ident \o m.obj \o m.other_objs \o <<" ", "=", " ">>
                      \o constructor.text \o <<";", " ", "(">>
                      \o JoinWith(gens, <<",", " ">>) \o <<",", ")", " ", "=", " ">>
                      \o m.obj \o <<".", "_", "f", "i", "r", "s", "t", "_", "n", "g", "e", "n", "s", "(">> \o Str(Len(gens)) \o <<")">>)

\* the loop over the matches, from position from on
RECURSIVE GeneratorsLoop(_, _)
GeneratorsLoop(s, from) ==
    LET i == Least({k \in from .. (Len(s) - 1) : GeneratorsAt(s, k) # NoGenerators})
    IN  IF i = -1 THEN Text(SliceFrom(s, from))
        ELSE LET m == GeneratorsAt(s, i)
                 statement == GeneratorsStatement(m)
                 rest == GeneratorsLoop(s, m.end)
             IN  IF statement.kind # "ok" THEN statement
                 ELSE IF rest.kind # "ok" THEN rest
                 ELSE Text(Slice(s, from, i) \o statement.text \o rest.text)

\* preparse_generators(code): the text, or the exception raised
preparse_generators(s) == GeneratorsLoop(s, 0)

----------------------------------------------------------------------------
(* A caller of preparse_generators on one line between the sentinels *)

MaxGeneratorPieces == 4

GeneratorPieces == {<<"R", ".", "<", "x", ">", "=">>,
                    <<"K", ".", "<", "a", ",", " ", "b", ">", ",", " ", "f", " ", "=", " ">>,
                    <<"Z", "Z">>, <<"[">>, <<"]">>, <<"[", "]">>, <<"(", ")">>,
                    <<"(", "2", ")">>, <<";">>, <<" ">>}

\* the line as preparse hands it over: L = ';%s;' % L.replace('\n', ';\n;')
GeneratorsInit ==
    /\ pc = "first"
    /\ code \in {<<";">> \o t \o <<";">> :
                     t \in TextsUpTo(GeneratorPieces, MaxGeneratorPieces)}
    /\ state = NoState
    /\ calls = <<>>
    /\ quote_state = NoState
    /\ implicit_mul_level = DefaultLevel

\* preparse_generators(code)
GeneratorsCall ==
    /\ pc = "first"
    /\ \E r \in {preparse_generators(code)} :
           calls' = <<[fn |-> "preparse_generators", args |-> [code |-> code],
                       ret |-> r]>>
    /\ pc' = "done"
    /\ UNCHANGED <<code, state, quote_state, implicit_mul_level>>

SpecGenerators == GeneratorsInit /\ [][GeneratorsCall]_vars

\* what follows the name of the parent in the statements of GeneratorPieces
GeneratorTails ==
    {[text |-> <<".", "<", "x", ">", "=">>, gens |-> << <<"x">> >>, others |-> <<>>],
     [text |-> <<".", "<", "a", ",", " ", "b", ">", ",", " ", "f", " ", "=">>,
      gens |-> << <<"a">>, <<"b">> >>, others |-> <<",", " ", "f", " ">>]}

\* the statements of a line between the sentinels
StatementsOf(c) == Split(SliceFrom(c, 1), ";")

\* st read as indent obj.<gens> others = ctor, or NoState when it is not one
AsGenerators(st) ==
    LET body == LStrip(st)
        shapes == {[indent |-> SubSeq(st, 1, Len(st) - Len(body)),
                    obj |-> SubSeq(body, 1, n), gens |-> tail.gens,
                    others |-> tail.others,
                    ctor |-> Strip(SliceFrom(body, n + Len(tail.text))),
                    rest |-> SliceFrom(body, n + Len(tail.text))] :
                       <<n, tail>> \in {<<n, tail>> \in (1 .. Len(body)) \X GeneratorTails :
                                            /\ \A k \in 1 .. n : body[k] \in WordChars
                                            /\ body[1] \notin Digits
                                            /\ StartsAt(body, tail.text, n)}}
    IN  IF shapes = {} \/ \E g \in shapes : g.rest = <<>> THEN NoState
        ELSE CHOOSE g \in shapes : TRUE

\* the position in c of the bracket that the last character of c closes
MatchingOpen(c) == SetMax({p \in 0 .. (Len(c) - 1) : WellNested(SliceFrom(c, p))})

NamesArgument(gens) ==
    <<"n", "a", "m", "e", "s", "=", "(", "'">> \o JoinWith(gens, <<"'", ",", " ", "'">>)
        \o <<"'", ",", ")">>

QuotedNames(gens) == <<"'">> \o JoinWith(gens, <<",", " ">>) \o <<"'">>

\* ctor with the names as the last argument of its final call
InFinalCall(ctor, gens) ==
    LET opening == MatchingOpen(ctor)
        comma == IF Strip(Slice(ctor, opening + 1, Len(ctor) - 1)) # <<>>
                 THEN <<",", " ">> ELSE <<>>
    IN  SubSeq(ctor, 1, Len(ctor) - 1) \o comma \o NamesArgument(gens) \o <<")">>

\* ctor ends in a subscript that holds nothing
EndsInEmptySubscript(ctor) ==
    /\ Last(ctor) = "]"
    /\ Strip(Slice(ctor, MatchingOpen(ctor) + 1, Len(ctor) - 1)) = <<>>

\* ctor ends in "]" and nothing stands between its last "[" and the next "]"
LastSubscriptEmpty(ctor) ==
    /\ Last(ctor) = "]"
    /\ LET opening == RFind(ctor, <<"[">>)
       IN  Strip(Slice(ctor, opening + 1, Find(ctor, <<"]">>, opening))) = <<>>

\* the statement that stands for g once ctor has become with
Rewritten(g, with) ==
    g.indent \o g.obj \o g.others \o <<" ", "=", " ">> \o with \o <<";", " ", "(">>
        \o JoinWith(g.gens, <<",", " ">>) \o <<",", ")", " ", "=", " ">> \o g.obj
        \o <<".", "_", "f", "i", "r", "s", "t", "_", "n", "g", "e", "n", "s", "(">>
        \o Str(Len(g.gens)) \o <<")">>

\* every generator statement of the line has a constructor, well nested
GeneratorsCovered(c) ==
    \A k \in 1 .. Len(StatementsOf(c)) :
        LET g == AsGenerators(StatementsOf(c)[k])
        IN  g # NoState => g.ctor # <<>> /\ WellNested(g.ctor)

----------------------------------------------------------------------------
(* preparse_calculus *)

NoFunction == [start |-> -1]

\* the match at position i when the expression may begin with "="
FunctionAtAnyExpression(s, i) ==
    LET a == RunEnd(s, i + 1, Blank)
        b == RunEnd(s, a, WordChars)
        open == RunEnd(s, b, {" "})
        close == RunEndNot(s, open + 1, {"(", ")"})
        eq == RunEnd(s, close + 1, {" "})
        sp == RunEnd(s, eq + 1, {" "})
        first == IF sp < Len(s) /\ s[sp + 1] \notin {";", "#"} THEN sp
                 ELSE IF sp > eq + 1 THEN sp - 1
                 ELSE -1
        end == RunEndNot(s, first + 1, {";", "#"})
    IN  IF /\ s[i + 1] = ";"
           /\ a < Len(s) /\ s[a + 1] \in Alpha \cup {"_"}
           /\ open < Len(s) /\ s[open + 1] = "("
           /\ close > open + 1
           /\ close < Len(s) /\ s[close + 1] = ")"
           /\ eq < Len(s) /\ s[eq + 1] = "="
           /\ first # -1
        THEN [start |-> i, ident |-> Slice(s, i + 1, a), func |-> Slice(s, a, b),
              vars |-> Slice(s, open + 1, close), expr |-> Slice(s, first, end),
              end |-> end]
        ELSE NoFunction

\* the match of r';(\s*)([a-zA-Z_]\w*) *\(([^()]+)\) *= *([^;#=][^;#]*)' at
\* position i
FunctionAt(s, i) ==
    LET a == RunEnd(s, i + 1, Blank)
        b == RunEnd(s, a, WordChars)
        open == RunEnd(s, b, {" "})
        close == RunEndNot(s, open + 1, {"(", ")"})
        eq == RunEnd(s, close + 1, {" "})
        sp == RunEnd(s, eq + 1, {" "})
        first == IF sp < Len(s) /\ s[sp + 1] \notin {";", "#", "="} THEN sp
                 ELSE IF sp > eq + 1 THEN sp - 1
                 ELSE -1
        end == RunEndNot(s, first + 1, {";", "#"})
    IN  IF /\ s[i + 1] = ";"
           /\ a < Len(s) /\ s[a + 1] \in Alpha \cup {"_"}
           /\ open < Len(s) /\ s[open + 1] = "("
           /\ close > open + 1
           /\ close < Len(s) /\ s[close + 1] = ")"
           /\ eq < Len(s) /\ s[eq + 1] = "="
           /\ first # -1
        THEN [start |-> i, ident |-> Slice(s, i + 1, a), func |-> Slice(s, a, b),
              vars |-> Slice(s, open + 1, close), expr |-> Slice(s, first, end),
              end |-> end]
        ELSE NoFunction

\* the parameters as they stand between the parentheses
VarsAsWritten(written) == written

\* vars = ','.join(v.strip() for v in vars.split(','))
Vars(written) == JoinWith(StrippedNames(written), <<",">>)

\* preparse_calculus(code), from position from on
RECURSIVE CalculusLoop(_, _)
CalculusLoop(s, from) ==
    LET i == Least({k \in from .. (Len(s) - 1) : FunctionAt(s, k) # NoFunction})
    IN  IF i = -1 THEN SliceFrom(s, from)
        ELSE LET m == FunctionAt(s, i)
                 names == Vars(m.vars)
             IN  Slice(s, from, i) \o <<";">> \o m.ident \o <<"_", "_", "t", "m", "p", "_", "_", "=", "v", "a", "r", "(", "\"">> \o names
                     \o <<"\"", ")", ";", " ">> \o m.func \o <<" ", "=", " ", "s", "y", "m", "b", "o", "l", "i", "c", "_", "e", "x", "p", "r", "e", "s", "s", "i", "o", "n", "(">> \o m.expr \o <<")", ".", "f", "u", "n", "c", "t", "i", "o", "n", "(">>
                     \o names \o <<")">> \o CalculusLoop(s, m.end)

preparse_calculus(s) == CalculusLoop(s, 0)

----------------------------------------------------------------------------
(* A caller of preparse_calculus on one line between the sentinels *)

MaxCalculusPieces == 5

CalculusPieces == {<<"f", "(", "x", ")", "=">>,
                   <<"g", " ", "(", " ", "t", " ", ",", " ", "s", " ", ")", " ", "=", " ">>,
                   <<"f">>, <<"(", "x", ")">>, <<"=">>, <<" ">>, <<";">>, <<"2">>}

\* the line as preparse hands it over: L = ';%s;' % L.replace('\n', ';\n;')
CalculusInit ==
    /\ pc = "first"
    /\ code \in {<<";">> \o t \o <<";">> :
                     t \in TextsUpTo(CalculusPieces, MaxCalculusPieces)}
    /\ state = NoState
    /\ calls = <<>>
    /\ quote_state = NoState
    /\ implicit_mul_level = DefaultLevel

\* preparse_calculus(code)
CalculusCall ==
    /\ pc = "first"
    /\ \E r \in {preparse_calculus(code)} :
           calls' = <<[fn |-> "preparse_calculus", args |-> [code |-> code],
                       ret |-> r]>>
    /\ pc' = "done"
    /\ UNCHANGED <<code, state, quote_state, implicit_mul_level>>

SpecCalculus == CalculusInit /\ [][CalculusCall]_vars

\* st read as indent f (p1, ..., pn) = expr, with after what follows "=", or
\* NoState when it is not one
AsFunction(st) ==
    LET body == LStrip(st)
        name == RunEnd(body, 0, WordChars)
        opening == RunEnd(body, name, {" "})
        closing == Find(body, <<")">>, opening)
        equals == RunEnd(body, closing + 1, {" "})
    IN  IF /\ name > 0 /\ body[1] \notin Digits
           /\ opening < Len(body) /\ body[opening + 1] = "("
           /\ closing > opening + 1
           /\ \A k \in (opening + 2) .. closing : body[k] # "("
           /\ equals < Len(body) /\ body[equals + 1] = "="
        THEN [indent |-> SubSeq(st, 1, Len(st) - Len(body)),
              f |-> Slice(body, 0, name),
              params |-> Split(Slice(body, opening + 1, closing), ","),
              after |-> SliceFrom(body, equals + 1)]
        ELSE NoState

\* st is a definition of a function: an expression follows its "="
IsFunction(st) ==
    /\ AsFunction(st) # NoState
    /\ LStrip(AsFunction(st).after) # <<>>
    /\ Head(LStrip(AsFunction(st).after)) # "="

\* st compares a call with something, or stops after the "="
IsNoFunction(st) ==
    \/ AsFunction(st) = NoState
    \/ AsFunction(st).after = <<>>
    \/ Head(AsFunction(st).after) = "="

\* every statement of the line is a definition of a function or clearly none
CalculusCovered(c) ==
    \A k \in 1 .. Len(StatementsOf(c)) :
        IsFunction(StatementsOf(c)[k]) \/ IsNoFunction(StatementsOf(c)[k])

\* the two statements that stand for the definition g
AsSymbolic(g) ==
    LET names == JoinWith([k \in 1 .. Len(g.params) |-> Strip(g.params[k])], <<",">>)
    IN  g.indent \o <<"_", "_", "t", "m", "p", "_", "_", "=", "v", "a", "r", "(", "\"">>
            \o names \o <<"\"", ")", ";", " ">> \o g.f
            \o <<" ", "=", " ", "s", "y", "m", "b", "o", "l", "i", "c", "_",
                 "e", "x", "p", "r", "e", "s", "s", "i", "o", "n", "(">>
            \o LStrip(g.after)
            \o <<")", ".", "f", "u", "n", "c", "t", "i", "o", "n", "(">> \o names \o <<")">>

\* C20: preparse_calculus replaces every statement f(p1, ..., pn) = expr of a
\* line by __tmp__=var("p1,...,pn"); f = symbolic_expression(expr).function(p1,...,pn),
\* the names stripped and in order, and leaves every other statement as it is
C20_FunctionsDefined ==
    \A i \in 1 .. Len(calls) :
        (calls[i].fn = "preparse_calculus" /\ CalculusCovered(calls[i].args.code)) =>
            LET sts == StatementsOf(calls[i].args.code)
                new == [k \in 1 .. Len(sts) |->
                           IF IsFunction(sts[k]) THEN AsSymbolic(AsFunction(sts[k]))
                           ELSE sts[k]]
            IN  calls[i].ret = <<";">> \o JoinWith(new, <<";">>)

\* a function of two parameters written with blanks, after another statement
C20_Witness ==
    \E i \in 1 .. Len(calls) :
        /\ calls[i].fn = "preparse_calculus"
        /\ CalculusCovered(calls[i].args.code)
        /\ \E k \in 2 .. Len(StatementsOf(calls[i].args.code)) :
               /\ IsFunction(StatementsOf(calls[i].args.code)[k])
               /\ Len(AsFunction(StatementsOf(calls[i].args.code)[k]).params) = 2
               /\ StatementsOf(calls[i].args.code)[k - 1] # <<>>
               /\ ~IsFunction(StatementsOf(calls[i].args.code)[k - 1])
        /\ calls[i].ret # calls[i].args.code

----------------------------------------------------------------------------
(* A caller of preparse_calculus on calls followed by an operator and "=" *)

MaxAugmentedPieces == 4

\* the characters OP of the augmented assignments and comparisons OP=
AugmentedOperators == {"+", "-", "*", "/", "%", "&", "|", "^", "<", ">", "!"}

AugmentedPieces ==
    {<<"f", "(", "x", ")">>, <<"g", " ", "(", "t", ",", "s", ")", " ">>,
     <<"=">>, <<"=", "=">>, <<"-">>, <<" ">>, <<"2">>, <<";">>}
        \cup {<<op, "=">> : op \in AugmentedOperators}

AugmentedInit ==
    /\ pc = "first"
    /\ code \in {<<";">> \o t \o <<";">> :
                     t \in TextsUpTo(AugmentedPieces, MaxAugmentedPieces)}
    /\ state = NoState
    /\ calls = <<>>
    /\ quote_state = NoState
    /\ implicit_mul_level = DefaultLevel

SpecAugmented == AugmentedInit /\ [][CalculusCall]_vars

\* what follows ident(params) and its blanks in st, <<>> when st does not
\* begin with ident(params)
AfterCall(st) ==
    LET body == LStrip(st)
        name == RunEnd(body, 0, WordChars)
        opening == RunEnd(body, name, {" "})
        closing == Find(body, <<")">>, opening)
    IN  IF /\ name > 0 /\ body[1] \notin Digits
           /\ opening < Len(body) /\ body[opening + 1] = "("
           /\ closing > opening + 1
           /\ \A k \in (opening + 2) .. closing : body[k] # "("
        THEN SliceFrom(body, RunEnd(body, closing + 1, {" "}))
        ELSE <<>>

\* st is ident(params) OP= expr or ident(params) == expr
IsAugmented(st) ==
    /\ Len(AfterCall(st)) >= 2
    /\ AfterCall(st)[1] \in AugmentedOperators \cup {"="}
    /\ AfterCall(st)[2] = "="

\* st is ident(params) =- expr
IsMinusForm(st) ==
    /\ Len(AfterCall(st)) >= 2
    /\ AfterCall(st)[1] = "="
    /\ AfterCall(st)[2] = "-"

\* C21: preparse_calculus leaves ident(params) OP= expr, with OP one of
\* + - * / % & | ^ < > !, and ident(params) == expr as they are, with any
\* spacing, and rewrites ident(params) =- expr into the symbolic function
\* with the right-hand side - expr
C21_AugmentedUntouched ==
    \A i \in 1 .. Len(calls) :
        LET sts == StatementsOf(calls[i].args.code)
        IN  (calls[i].fn = "preparse_calculus"
               /\ \A k \in 1 .. Len(sts) : IsAugmented(sts[k]) \/ IsMinusForm(sts[k])
                                               \/ sts[k] = <<>>)
            => calls[i].ret =
                   <<";">> \o JoinWith([k \in 1 .. Len(sts) |->
                                           IF IsMinusForm(sts[k])
                                           THEN AsSymbolic(AsFunction(sts[k]))
                                           ELSE sts[k]],
                                       <<";">>)

\* a call of two parameters followed by blanks, an augmented assignment
\* and its right-hand side
C21_Witness ==
    \E i \in 1 .. Len(calls) :
        LET sts == StatementsOf(calls[i].args.code)
        IN  /\ calls[i].fn = "preparse_calculus"
            /\ \A k \in 1 .. Len(sts) : IsAugmented(sts[k]) \/ IsMinusForm(sts[k])
                                            \/ sts[k] = <<>>
            /\ \E k \in 1 .. Len(sts) :
                   /\ IsAugmented(sts[k])
                   /\ Len(AfterCall(sts[k])) > 2
                   /\ Len(AfterCall(sts[k])) + 5 < Len(sts[k])
                   /\ AfterCall(sts[k])[1] # "="

----------------------------------------------------------------------------
(* preparse *)

\* a call of parse_ellipsis that lets its SyntaxError through
ExpandEllipsisOrRaise(skeleton) == parse_ellipsis(skeleton, FALSE)

\* the try block around parse_ellipsis: a SyntaxError is passed over and
\* the skeleton goes on as it was
ExpandEllipsis(skeleton) ==
    Only({IF expanded.kind = "ok" THEN expanded ELSE Text(skeleton) :
          expanded \in {parse_ellipsis(skeleton, FALSE)}})

\* the two rewrites that do_time switches on
TimeSeparated(L, do_time) == IF do_time THEN SeparateTime(L, 0) ELSE L

TimeWrapped(L, do_time) == IF do_time THEN WrapTime(L, 0) ELSE L

\* L % literals
FormatResult(formatted) ==
    IF formatted.ok THEN Text(formatted.text) ELSE Raised("FormatError")

\* from preparse_calculus on, after preparse_generators returned or raised
AfterGenerators(generators, literals, do_time) ==
    IF generators.kind # "ok" THEN generators
    ELSE Only({FormatResult(formatted) :
               formatted \in {Format(
                   WithoutSentinels(TimeWrapped(
                       BackslashToOperator(preparse_calculus(generators.text), 0),
                       do_time)),
                   literals)}})

\* the same with the literals already in the text
AfterGeneratorsRestored(generators, do_time) ==
    IF generators.kind # "ok" THEN generators
    ELSE Text(WithoutSentinels(TimeWrapped(
             BackslashToOperator(preparse_calculus(generators.text), 0),
             do_time)))

\* the rewrites between the numeric literals and preparse_generators
BeforeGenerators(L, do_time) ==
    TimeSeparated(WithSentinels(RemapCaret(IndexToGen(L, 0))), do_time)

LaterStagesOn(formatted, do_time) ==
    IF ~formatted.ok THEN Raised("FormatError")
    ELSE Only({AfterGeneratorsRestored(generators, do_time) :
               generators \in {preparse_generators(
                                   BeforeGenerators(formatted.text, do_time))}})

\* the later stages with the literals restored before the rewriting
LaterStagesRestoreFirst(L, literals, do_time) ==
    Only({LaterStagesOn(formatted, do_time) : formatted \in {Format(L, literals)}})

\* the stages that follow the numeric literals, on the skeleton L: the text,
\* or the exception raised
LaterStages(L, literals, do_time) ==
    Only({AfterGenerators(generators, literals, do_time) :
          generators \in {preparse_generators(BeforeGenerators(L, do_time))}})

\* the numeric literals, when numeric_literals is set
Wrapping(L, numeric_literals) ==
    IF numeric_literals THEN preparse_numeric_literals(L, FALSE) ELSE L

AfterMultiplication(multiplied, literals, do_time, numeric_literals) ==
    IF multiplied.kind # "ok" THEN multiplied
    ELSE LaterStages(Wrapping(multiplied.text, numeric_literals), literals,
                     do_time)

AfterEllipsis(expanded, literals, do_time, numeric_literals, level) ==
    IF expanded.kind # "ok" THEN expanded
    ELSE Only({AfterMultiplication(multiplied, literals, do_time,
                                   numeric_literals) :
               multiplied \in {IF level # 0
                               THEN implicit_mul(expanded.text, level)
                               ELSE expanded}})

AfterStrip(stripped, do_time, numeric_literals, level) ==
    [ret |-> Only({AfterEllipsis(expanded, stripped.literals, do_time,
                                 numeric_literals, level) :
                   expanded \in {ExpandEllipsis(stripped.skeleton)}}),
     quote_state |-> stripped.state]

\* preparse from line 833 on: the result and the new value of quote_state
Stages(line, do_time, ignore_prompts, numeric_literals, qs, level) ==
    Only({AfterStrip(stripped, do_time, numeric_literals, level) :
          stripped \in {strip_string_literals(
                            IF ignore_prompts THEN strip_prompts(line)
                            ELSE line, qs)}})

\* preparse(line, reset, do_time, ignore_prompts, numeric_literals) with
\* the globals quote_state and implicit_mul_level: the text returned or the
\* exception raised, and the new value of quote_state
RECURSIVE preparse(_, _, _, _, _, _, _)

\* line[:i+3] + preparse(line[i+3:], ...)
Continued(dots, rest) ==
    [ret |-> IF rest.ret.kind = "ok" THEN Text(dots \o rest.ret.text)
             ELSE rest.ret,
     quote_state |-> rest.quote_state]

preparse(line, reset, do_time, ignore_prompts, numeric_literals, qs0, level) ==
    Only({IF LStrip(line) # <<>> /\ Head(LStrip(line)) \in {"#", "!"}
          THEN [ret |-> Text(line), quote_state |-> qs]
          ELSE IF StartsAt(LStrip(line), <<".", ".", ".">>, 0)
          THEN Only({Continued(
                         Slice(line, 0, Find(line, <<".", ".", ".">>, 0) + 3),
                         rest) :
                     rest \in {preparse(
                         SliceFrom(line, Find(line, <<".", ".", ".">>, 0) + 3),
                         reset, do_time, ignore_prompts, TRUE, qs, level)}})
          ELSE Stages(line, do_time, ignore_prompts, numeric_literals, qs, level) :
          qs \in {IF reset THEN NoState ELSE qs0}})

----------------------------------------------------------------------------
(* A caller of preparse: a statement at once, or line after line *)

MaxPreparsePieces == 3

PreparsePieces == {<<"'">>, <<"#">>, <<"^">>, <<"2">>, <<"x">>, <<".", ".">>,
                   <<"\\">>, <<"\n">>, <<"(">>, <<")">>, <<"%">>,
                   <<".", "0">>,
                   <<"R", ".", "<", "x", ">", "=">>,
                   <<"f", "(", "x", ")", "=">>,
                   <<"t", "i", "m", "e", " ">>,
                   <<"s", "a", "g", "e", ":", " ">>}

Levels == {1, 2, 3, 10}

FirstLine(s) ==
    LET n == Find(s, <<"\n">>, 0)
    IN  IF n = -1 THEN s ELSE Slice(s, 0, n)

AfterFirstLine(s) ==
    LET n == Find(s, <<"\n">>, 0)
    IN  IF n = -1 THEN <<>> ELSE SliceFrom(s, n + 1)

PreparseInit ==
    /\ pc = "first"
    /\ code \in TextsUpTo(PreparsePieces, MaxPreparsePieces)
    /\ state = NoState
    /\ calls = <<>>
    /\ quote_state = NoState
    /\ implicit_mul_level = DefaultLevel

\* implicit_multiplication(level)
implicit_multiplication ==
    /\ pc = "first"
    /\ implicit_mul_level = DefaultLevel
    /\ \E level \in Levels : implicit_mul_level' = level
    /\ UNCHANGED <<pc, code, state, calls, quote_state>>

\* one call of preparse on line; rest is what the caller keeps for later
PreparseCall(line, rest, reset, do_time, ignore_prompts, numeric_literals) ==
    \E r \in {preparse(line, reset, do_time, ignore_prompts, numeric_literals,
                       quote_state, implicit_mul_level)} :
        /\ calls' = Append(calls,
               [fn |-> "preparse",
                args |-> [line |-> line, reset |-> reset, do_time |-> do_time,
                          ignore_prompts |-> ignore_prompts,
                          numeric_literals |-> numeric_literals,
                          quote_state |-> quote_state,
                          implicit_mul_level |-> implicit_mul_level],
                ret |-> r.ret])
        /\ quote_state' = r.quote_state
        /\ code' = rest
        /\ pc' = IF rest = <<>> THEN "done" ELSE "more"
        /\ UNCHANGED <<state, implicit_mul_level>>

\* the flags a caller sets: the defaults, or one of them switched
Flags == {[do_time |-> FALSE, ignore_prompts |-> FALSE, numeric_literals |-> TRUE],
          [do_time |-> TRUE, ignore_prompts |-> FALSE, numeric_literals |-> TRUE],
          [do_time |-> FALSE, ignore_prompts |-> TRUE, numeric_literals |-> TRUE],
          [do_time |-> FALSE, ignore_prompts |-> FALSE, numeric_literals |-> FALSE]}

\* preparse(code): the whole text as one statement, with the defaults
WholeText ==
    [line |-> code, rest |-> <<>>, reset |-> TRUE,
     flags |-> [do_time |-> FALSE, ignore_prompts |-> FALSE,
                numeric_literals |-> TRUE]]

\* preparse(L, reset=(i==0), ...): the text handed over line by line, the
\* state reset on the first line only, as at the call in preparse_file
NextLine ==
    {[line |-> FirstLine(code), rest |-> AfterFirstLine(code),
      reset |-> pc = "first", flags |-> f] : f \in Flags}

\* one call of preparse
Preparse ==
    /\ pc \in {"first", "more"}
    /\ \E c \in (IF pc = "first" THEN {WholeText} ELSE {}) \cup NextLine :
           PreparseCall(c.line, c.rest, c.reset, c.flags.do_time,
                        c.flags.ignore_prompts, c.flags.numeric_literals)

PreparseNext == implicit_multiplication \/ Preparse

SpecPreparse == PreparseInit /\ [][PreparseNext]_vars

----------------------------------------------------------------------------
(* Properties of preparse *)

IsPreparse(c) == c.fn = "preparse"

\* the marker of a range
TwoDots == <<".", ".">>

\* the quote state a call starts from
GivenState(c) == IF c.args.reset THEN NoState ELSE c.args.quote_state

\* the literal table a call builds: none when the line is returned as it
\* is, that of the remainder after a leading "...", else that of the line
\* handed to strip_string_literals
RECURSIVE TableOf(_, _, _)
TableOf(line, ignore_prompts, qs) ==
    LET L == LStrip(line)
    IN  IF L # <<>> /\ Head(L) \in {"#", "!"} THEN EmptyDict
        ELSE IF StartsAt(L, <<".", ".", ".">>, 0)
        THEN TableOf(SliceFrom(line, Find(line, <<".", ".", ".">>, 0) + 3),
                     ignore_prompts, qs)
        ELSE strip_string_literals(
                 IF ignore_prompts THEN strip_prompts(line) ELSE line,
                 qs).literals

\* every text of the table occurs in the text out
AllOccur(table, out) == \A label \in DOMAIN table : Contains(out, table[label])

EllipsisOutcome(c) ==
    parse_ellipsis(strip_string_literals(
                       IF c.args.ignore_prompts THEN strip_prompts(c.args.line)
                       ELSE c.args.line,
                       GivenState(c)).skeleton,
                   FALSE)

\* the call runs the stages on its whole line
RunsStages(c) ==
    LET L == LStrip(c.args.line)
    IN  ~(L # <<>> /\ Head(L) \in {"#", "!"}) /\ ~StartsAt(L, <<".", ".", ".">>, 0)

\* C9 as stated: when the ellipsis stage signals a SyntaxError, preparse
\* fails with that error and returns no text.
C9_SyntaxErrorAborts ==
    \A i \in 1 .. Len(calls) :
        LET c == calls[i]
        IN  (IsPreparse(c) /\ RunsStages(c)
               /\ EllipsisOutcome(c).kind = "SyntaxError")
            => c.ret.kind = "SyntaxError"

\* C9 amended: preparse never fails with a SyntaxError; when the ellipsis
\* stage signals one, the two-dot marker stays in the text and preparse
\* returns what the later stages make of the un-expanded line, or fails with
\* the exception of a later stage.
C9_SyntaxErrorPassedOver ==
    \A i \in 1 .. Len(calls) :
        LET c == calls[i]
        IN  IsPreparse(c) =>
                /\ c.ret.kind # "SyntaxError"
                /\ (RunsStages(c) /\ EllipsisOutcome(c).kind = "SyntaxError")
                   => /\ c.ret.kind \in {"ok", "IndexError", "ValueError",
                                         "FormatError", "UnboundLocalError"}
                      /\ c.ret.kind = "ok" =>
                             /\ Contains(c.ret.text, TwoDots)
                             /\ ~Contains(c.ret.text, EllipsisToken)

\* a line whose ellipsis has no block around it or is the first token, and
\* that comes back as text, rewritten by the other stages
C9_Witness ==
    \E i \in 1 .. Len(calls) :
        LET c == calls[i]
        IN  /\ IsPreparse(c)
            /\ RunsStages(c)
            /\ EllipsisOutcome(c).kind = "SyntaxError"
            /\ c.ret.kind = "ok"
            /\ c.ret.text # c.args.line

----------------------------------------------------------------------------
(* A caller of preparse on one line of names, carets, a string and a       *)
(* comment                                                                 *)

MaxCaretPieces == 5

CaretPieces == {<<"a">>, <<"b">>, <<"^">>, <<"^", "^">>, <<" ">>, <<"#">>,
                <<"'", "^", "'">>}

CaretInit ==
    /\ pc = "first"
    /\ code \in TextsUpTo(CaretPieces, MaxCaretPieces)
    /\ state = NoState
    /\ calls = <<>>
    /\ quote_state = NoState
    /\ implicit_mul_level = DefaultLevel

SpecCaret == CaretInit /\ [][Preparse]_vars

\* the runs of carets of s from position i on that stand outside the
\* strings and the comment, each as <<start, end>>
RECURSIVE CaretRuns(_, _)
CaretRuns(s, i) ==
    IF i >= Len(s) \/ s[i + 1] = "#" THEN {}
    ELSE IF s[i + 1] = "'" THEN CaretRuns(s, i + 3)
    ELSE IF s[i + 1] = "^"
    THEN {<<i, RunEnd(s, i, {"^"})>>} \cup CaretRuns(s, RunEnd(s, i, {"^"}))
    ELSE CaretRuns(s, i + 1)

\* an expression ends before the run and another begins after it
BetweenExpressions(s, run) ==
    /\ RStrip(Slice(s, 0, run[1])) # <<>>
    /\ Last(RStrip(Slice(s, 0, run[1]))) \in {"a", "b", "'"}
    /\ LStrip(SliceFrom(s, run[2])) # <<>>
    /\ Head(LStrip(SliceFrom(s, run[2]))) \in {"a", "b", "'"}

\* s with every run of one caret outside strings and comment as "**" and
\* every run of xor carets as "^"
RECURSIVE WithOperators(_, _)
WithOperators(s, xor) ==
    IF s = <<>> \/ Head(s) = "#" THEN s
    ELSE IF Head(s) = "'" THEN SubSeq(s, 1, 3) \o WithOperators(SliceFrom(s, 3), xor)
    ELSE IF Head(s) = "^"
    THEN (IF RunEnd(s, 0, {"^"}) = xor THEN <<"^">> ELSE <<"*", "*">>)
             \o WithOperators(SliceFrom(s, RunEnd(s, 0, {"^"})), xor)
    ELSE <<Head(s)>> \o WithOperators(Tail(s), xor)

\* every run of carets of the line stands between two expressions and is
\* one caret or xor carets long
OnlyOperators(s, xor) ==
    \A run \in CaretRuns(s, 0) :
        /\ run[2] - run[1] \in {1, xor}
        /\ BetweenExpressions(s, run)

\* C22: outside strings and comments preparse turns a lone "^" between two
\* expressions into "**" and "^^^^" between two expressions into "^"
C22_FourCaretsAreXor ==
    \A i \in 1 .. Len(calls) :
        (IsPreparse(calls[i]) /\ OnlyOperators(calls[i].args.line, 4))
            => calls[i].ret = Text(WithOperators(calls[i].args.line, 4))

\* C22, amended: outside strings and comments preparse turns a lone "^"
\* between two expressions into "**" and "^^" between two expressions into
\* "^"
C22_TwoCaretsAreXor ==
    \A i \in 1 .. Len(calls) :
        (IsPreparse(calls[i]) /\ OnlyOperators(calls[i].args.line, 2))
            => calls[i].ret = Text(WithOperators(calls[i].args.line, 2))

\* a power and a xor in a line that also holds a caret in a string
C22_Witness ==
    \E i \in 1 .. Len(calls) :
        /\ IsPreparse(calls[i])
        /\ OnlyOperators(calls[i].args.line, 2)
        /\ \E run \in CaretRuns(calls[i].args.line, 0) : run[2] - run[1] = 1
        /\ \E run \in CaretRuns(calls[i].args.line, 0) : run[2] - run[1] = 2
        /\ Contains(calls[i].args.line, <<"'", "^", "'">>)
        /\ calls[i].ret.kind = "ok"

----------------------------------------------------------------------------
(* A caller of preparse on one line of names, backslashes, blanks, a       *)
(* string and a comment                                                    *)

MaxBackslashPieces == 4

BackslashPieces == {<<"A">>, <<"B">>, <<BSL>>, <<" ">>, <<"\r">>, <<";">>, <<"#">>,
                    <<"'", BSL, "B", "'">>}

BackslashInit ==
    /\ pc = "first"
    /\ code \in TextsUpTo(BackslashPieces, MaxBackslashPieces)
    /\ state = NoState
    /\ calls = <<>>
    /\ quote_state = NoState
    /\ implicit_mul_level = DefaultLevel

SpecBackslash == BackslashInit /\ [][Preparse]_vars

BackslashOperator ==
    <<" ", "*", " ", "B", "a", "c", "k", "s", "l", "a", "s", "h", "O", "p", "e",
      "r", "a", "t", "o", "r", "(", ")", " ", "*", " ">>

\* s with the operator in the place of every backslash outside the strings
\* and the comment that has, after its blanks, a character other than ";"
\* and "#" to stand before
RECURSIVE WithBackslashOperator(_)
WithBackslashOperator(s) ==
    IF s = <<>> \/ Head(s) = "#" THEN s
    ELSE IF Head(s) = "'" THEN SubSeq(s, 1, 4) \o WithBackslashOperator(SliceFrom(s, 4))
    ELSE IF Head(s) = BSL /\ RunEnd(s, 1, Blank) < Len(s)
                          /\ s[RunEnd(s, 1, Blank) + 1] \notin {";", "#"}
    THEN BackslashOperator \o WithBackslashOperator(SliceFrom(s, RunEnd(s, 1, Blank)))
    ELSE <<Head(s)>> \o WithBackslashOperator(Tail(s))

\* C23: preparse puts " * BackslashOperator() * " in the place of every
\* backslash that is followed in its statement, after optional blanks, by a
\* character other than ";" and "#", before that character, and leaves a
\* backslash that is the last non-blank character of its line and a
\* backslash in a string as they are
C23_BackslashOperator ==
    \A i \in 1 .. Len(calls) :
        IsPreparse(calls[i])
            => calls[i].ret = Text(WithBackslashOperator(calls[i].args.line))

----------------------------------------------------------------------------
(* Two callers of preparse, each feeding the lines of its own text with    *)
(* reset=False, their calls interleaved in any order                       *)

MaxSessionPieces == 3

SessionPieces == {<<"'", "'", "'">>, <<"2">>, <<"\n">>}

Sessions == {"a", "b"}

\* code holds, for each caller, the text it has still to feed
SessionsInit ==
    /\ pc = "first"
    /\ code \in [Sessions -> TextsUpTo(SessionPieces, MaxSessionPieces)]
    /\ state = NoState
    /\ calls = <<>>
    /\ quote_state = NoState
    /\ implicit_mul_level = DefaultLevel

\* preparse(line, reset=False) by one of the callers, on its next line
SessionCall ==
    \E session \in Sessions :
        /\ code[session] # <<>>
        /\ \E r \in {preparse(FirstLine(code[session]), FALSE, FALSE, FALSE, TRUE,
                              quote_state, implicit_mul_level)} :
               /\ calls' = Append(calls,
                      [fn |-> "preparse", session |-> session,
                       args |-> [line |-> FirstLine(code[session]), reset |-> FALSE,
                                 do_time |-> FALSE, ignore_prompts |-> FALSE,
                                 numeric_literals |-> TRUE,
                                 quote_state |-> quote_state,
                                 implicit_mul_level |-> implicit_mul_level],
                       ret |-> r.ret])
               /\ quote_state' = r.quote_state
        /\ code' = [code EXCEPT ![session] = AfterFirstLine(code[session])]
        /\ pc' = "more"
        /\ UNCHANGED <<state, implicit_mul_level>>

SpecSessions == SessionsInit /\ [][SessionCall]_vars

\* the calls of one caller, in the order it made them
CallsOf(session) == SelectSeq(calls, LAMBDA c : c.session = session)

\* what the calls cs return when no other caller runs between them, the
\* first of them starting from the quote state qs
RECURSIVE Alone(_, _)
Alone(cs, qs) ==
    IF cs = <<>> THEN <<>>
    ELSE LET r == preparse(cs[1].args.line, FALSE, FALSE, FALSE, TRUE, qs,
                           cs[1].args.implicit_mul_level)
         IN  <<r.ret>> \o Alone(Tail(cs), r.quote_state)

\* C24: when the calls of two callers with reset=False are interleaved,
\* each caller gets what it gets when its lines run alone
C24_SessionsIndependent ==
    \A session \in Sessions :
        LET cs == CallsOf(session)
        IN  [k \in 1 .. Len(cs) |-> cs[k].ret] = Alone(cs, NoState)

----------------------------------------------------------------------------
(* A caller of preparse on one line with a binding of generators *)

MaxBindingPieces == 3

BindingPieces == {<<"R", ".", "<", "x", ">", " ", "=">>, <<" ">>, <<"Z", "Z">>,
                  <<"[", "]">>, <<")">>, <<"]">>, <<"(">>, <<"2">>}

BindingInit ==
    /\ pc = "first"
    /\ code \in TextsUpTo(BindingPieces, MaxBindingPieces)
    /\ state = NoState
    /\ calls = <<>>
    /\ quote_state = NoState
    /\ implicit_mul_level = DefaultLevel

SpecBinding == BindingInit /\ [][Preparse]_vars

\* C25: on a line of text preparse, with the rewriters it runs, returns
\* text or fails with a SyntaxError, never with a failure of another kind
\* such as an IndexError
C25_OnlySyntaxErrors ==
    \A i \in 1 .. Len(calls) :
        IsPreparse(calls[i]) => calls[i].ret.kind \in {"ok", "SyntaxError"}

----------------------------------------------------------------------------
(* A caller of preparse on one line with numerals, continued or not *)

MaxContinuationPieces == 4

ContinuationPieces == {<<".", ".", ".">>, <<" ">>, <<"2">>, <<".", "5">>, <<"j">>,
                       <<"x">>}

ContinuationInit ==
    /\ pc = "first"
    /\ code \in TextsUpTo(ContinuationPieces, MaxContinuationPieces)
    /\ state = NoState
    /\ calls = <<>>
    /\ quote_state = NoState
    /\ implicit_mul_level = DefaultLevel

SpecContinuation == ContinuationInit /\ [][Preparse]_vars

\* the openings of the three constructors
Constructors == {<<"I", "n", "t", "e", "g", "e", "r", "(">>,
                 <<"R", "e", "a", "l", "N", "u", "m", "b", "e", "r", "(">>,
                 <<"C", "o", "m", "p", "l", "e", "x", "N", "u", "m", "b", "e", "r", "(">>}

\* C26: preparse called with numeric_literals=False returns text in which
\* no numeral of the line is wrapped in Integer(...), RealNumber(...) or
\* ComplexNumber(...), whatever the form of the line, a continuation line
\* that begins with "..." included
C26_NoWrappingWhenDisabled ==
    \A i \in 1 .. Len(calls) :
        (IsPreparse(calls[i]) /\ ~calls[i].args.numeric_literals)
            => /\ calls[i].ret.kind = "ok"
               /\ \A opening \in Constructors : ~Contains(calls[i].ret.text, opening)

\* the same for the lines that do not begin with "..."
NoWrappingUnlessContinued ==
    \A i \in 1 .. Len(calls) :
        (IsPreparse(calls[i]) /\ ~calls[i].args.numeric_literals
           /\ ~StartsAt(LStrip(calls[i].args.line), <<".", ".", ".">>, 0))
            => /\ calls[i].ret.kind = "ok"
               /\ \A opening \in Constructors : ~Contains(calls[i].ret.text, opening)

----------------------------------------------------------------------------
(* A caller of preparse on the lines of a text with triple quotes and      *)
(* comments                                                                *)

MaxLinesPieces == 5

LinesPieces == {<<SQ, SQ, SQ>>, <<"#">>, <<NL>>, <<"2">>}

LinesInit ==
    /\ pc = "first"
    /\ code \in TextsUpTo(LinesPieces, MaxLinesPieces)
    /\ state = NoState
    /\ calls = <<>>
    /\ quote_state = NoState
    /\ implicit_mul_level = DefaultLevel

SpecLines == LinesInit /\ [][Preparse]_vars

\* the value of quote_state after the call number i
StateAfter(i) == IF i < Len(calls) THEN calls[i + 1].args.quote_state ELSE quote_state

\* the quote state at the end of the line of c
StateAtEnd(c) == strip_string_literals(c.args.line, GivenState(c)).state

\* C28: the quote state carried after each call of preparse is the quote
\* state at the end of its line, also when the line begins with "#" or "!"
\* and closes a literal opened on an earlier line, so that the next line is
\* rewritten as code, and a line that lies wholly inside an open literal is
\* returned as it is
C28_StateFollowsLine ==
    \A i \in 1 .. Len(calls) :
        (IsPreparse(calls[i]) /\ ~Contains(calls[i].args.line, <<NL>>)) =>
            /\ StateAfter(i) = StateAtEnd(calls[i])
            /\ (GivenState(calls[i]).in_quote # <<>>
                  /\ ~Contains(calls[i].args.line, GivenState(calls[i]).in_quote))
               => calls[i].ret = Text(calls[i].args.line)

\* the same for the lines that do not begin with "#" or "!"
StateFollowsCodeLine ==
    \A i \in 1 .. Len(calls) :
        (IsPreparse(calls[i]) /\ ~Contains(calls[i].args.line, <<NL>>)
           /\ ~(LStrip(calls[i].args.line) # <<>>
                  /\ Head(LStrip(calls[i].args.line)) \in {"#", "!"}))
        => /\ StateAfter(i) = StateAtEnd(calls[i])
           /\ (GivenState(calls[i]).in_quote # <<>>
                 /\ ~Contains(calls[i].args.line, GivenState(calls[i]).in_quote))
              => calls[i].ret = Text(calls[i].args.line)

----------------------------------------------------------------------------
(* preparse_file *)

\* _strip_quotes(s): one set of outer quotes taken off; a lone quote makes
\* s[-1] fail on the empty string
_strip_quotes(s) ==
    IF s = <<>> THEN Text(s)
    ELSE LET t == IF Head(s) \in {SQ, DQ} THEN Tail(s) ELSE s
         IN  IF t = <<>> THEN Raised("IndexError")
             ELSE IF Last(t) \in {SQ, DQ} THEN Text(SubSeq(t, 1, Len(t) - 1))
             ELSE Text(t)

\* try: name_load = _strip_quotes(L[5:]); except: name_load = L[5:].strip()
NameLoad(t) == IF _strip_quotes(t).kind = "ok" THEN _strip_quotes(t).text ELSE Strip(t)

\* os.path.abspath(name) with "/" as the working directory, for names
\* without "." and ".." components
AbsPath(name) == IF name # <<>> /\ Head(name) = "/" THEN name ELSE <<"/">> \o name

\* contents.splitlines(): the lines without their ends, an end being "\n",
\* "\r" or "\r\n"
RECURSIVE SplitLines(_)
SplitLines(t) ==
    IF t = <<>> THEN <<>>
    ELSE LET e == RunEndNot(t, 0, {NL, "\r"})
         IN  IF e = Len(t) THEN <<t>>
             ELSE <<Slice(t, 0, e)>>
                      \o SplitLines(SliceFrom(t, IF StartsAt(t, <<"\r", NL>>, e)
                                                 THEN e + 2 ELSE e + 1))

\* G.readlines(): the lines with their "\n"
RECURSIVE ReadLines(_)
ReadLines(t) ==
    IF t = <<>> THEN <<>>
    ELSE LET e == Find(t, <<NL>>, 0)
         IN  IF e = -1 THEN <<t>>
             ELSE <<Slice(t, 0, e + 1)>> \o ReadLines(SliceFrom(t, e + 1))

\* re.match(r"^ *(#.*)?$", first): blanks, then nothing or a comment
BlankOrComment(first) ==
    LET a == RunEnd(first, 0, {" "})
    IN  a = Len(first) \/ first[a + 1] = "#"

\* the orders in which nums.items() may list the entries of nums
ItemOrders(nums) ==
    {order \in [1 .. Cardinality(DOMAIN nums) -> DOMAIN nums] :
         \A j, k \in DOMAIN order : j # k => order[j] # order[k]}

\* "; ".join(assignments) + contents, or with "\n" from 500 assignments on
WithAssignments(contents, nums, order) ==
    LET assignments == [k \in DOMAIN order |->
                            order[k] \o <<" ", "=", " ">> \o nums[order[k]]]
    IN  IF Len(assignments) < 500
        THEN JoinWith(assignments, <<";", " ">>) \o contents
        ELSE JoinWith(assignments, <<NL>>) \o <<NL, NL>> \o contents

\* lines 939-950: the assignments put before the contents, in each order
\* nums.items() may give
Prelude(contents, nums) ==
    IF DOMAIN nums = {} THEN {Text(contents)}
    ELSE {Text(WithAssignments(
                   IF BlankOrComment(FirstLine(contents)) THEN contents
                   ELSE <<NL>> \o contents,
                   nums, order)) : order \in ItemOrders(nums)}

\* line 938: contents % literals, which may raise
WithLiterals(formatted, nums) ==
    IF formatted.ok THEN Prelude(formatted.text, nums) ELSE {Raised("FormatError")}

\* line 937: extract_numeric_literals(contents)
Extracted(stripped) ==
    UNION {UNION {WithLiterals(formatted, extracted.literals) :
                      formatted \in {Format(extracted.code, stripped.literals)}} :
               extracted \in {preparse_numeric_literals(stripped.skeleton, TRUE)}}

\* lines 936-950: the numerals of contents factored out; the contents it
\* may give, or the exception of contents % literals
Factored(contents) ==
    UNION {Extracted(stripped) : stripped \in {strip_string_literals(contents, NoState)}}

\* what one turn of the loop does with the line L of index i: it raises,
\* skips the line, puts the lines of a file in its place, or hands a line
\* to preparse
LoadTurn(L, name_load, st) ==
    IF \E k \in 1 .. Len(st.loaded_files) : st.loaded_files[k] = name_load
    THEN [kind |-> "skip", loaded |-> <<>>]
    ELSE IF Len(name_load) >= 3 /\ SliceFrom(name_load, Len(name_load) - 3) = <<".", "p", "y">>
    THEN [kind |-> "preparse", L |-> <<>>, loaded |-> <<name_load>>]
    ELSE IF Len(name_load) >= 5
              /\ SliceFrom(name_load, Len(name_load) - 5) = <<".", "s", "a", "g", "e">>
    THEN IF name_load \in DOMAIN st.files
         THEN [kind |-> "expand", lines |-> ReadLines(st.files[name_load]),
               loaded |-> <<name_load>>]
         ELSE [kind |-> "skip", loaded |-> <<name_load>>]
    ELSE [kind |-> "preparse",
          L |-> <<"l", "o", "a", "d", "(", DQ>> \o name_load \o <<DQ, ")">>,
          loaded |-> <<name_load>>]

\* lines 957-965: an attach line, its target name being name
AttachTurn(L, name, st) ==
    IF name.kind # "ok" THEN [kind |-> "raise", ret |-> name]
    ELSE IF AbsPath(name.text) \notin st.attached /\ name.text \notin DOMAIN st.files
    THEN [kind |-> "raise", ret |-> Raised("OSError")]
    ELSE LoadTurn(<<"l", "o", "a", "d", " ">> \o SliceFrom(L, 7),
                  NameLoad(SliceFrom(L, 7)), st)
             @@ [attach |-> {AbsPath(name.text)}]

Turn(L, st) ==
    IF st.magic /\ Slice(L, 0, 7) = <<"a", "t", "t", "a", "c", "h", " ">>
    THEN AttachTurn(L, _strip_quotes(SliceFrom(L, 7)), st)
    ELSE IF st.magic /\ Slice(L, 0, 5) = <<"l", "o", "a", "d", " ">>
    THEN LoadTurn(L, NameLoad(SliceFrom(L, 5)), st)
    ELSE [kind |-> "preparse", L |-> L, loaded |-> <<>>]

\* the names of the files a text may load, and the texts they may hold
FileA == <<"a", ".", "s", "a", "g", "e">>

FileB == <<"b", ".", "s", "a", "g", "e">>

LoadA == <<"l", "o", "a", "d", " ">> \o FileA

LoadB == <<"l", "o", "a", "d", " ">> \o FileB

AttachA == <<"a", "t", "t", "a", "c", "h", " ">> \o FileA

Square == <<"x", "^", "2">>

FileTexts == {LoadA \o <<NL>>, LoadB \o <<NL>> \o Square \o <<NL>>, Square \o <<NL>>}

\* the file systems: each of the two names is missing or holds a text
FileSystems ==
    UNION {[names -> FileTexts] : names \in SUBSET {FileA, FileB}}

MaxFilePieces == 3

FilePieces == {LoadA, LoadB, AttachA, Square, <<NL>>}

\* the lines a caller may have handed to preparse before the file is read
EarlierLines == {<<SQ, SQ, SQ>>, Square}

\* the locals of preparse_file at its call: the arguments magic and
\* numeric_literals, whether contents is a string, the files on disk, and
\* the module's dictionary attached
FileInit ==
    /\ pc = "first"
    /\ calls = <<>>
    /\ quote_state = NoState
    /\ implicit_mul_level = DefaultLevel
    /\ \E is_str \in BOOLEAN, magic \in BOOLEAN, numeric_literals \in BOOLEAN,
          files \in FileSystems :
           /\ code \in (IF is_str THEN TextsUpTo(FilePieces, MaxFilePieces) ELSE {<<>>})
           /\ is_str \/ (magic /\ numeric_literals /\ files = << >>)
           /\ state = [is_str |-> is_str, magic |-> magic,
                       numeric_literals |-> numeric_literals, files |-> files,
                       attached |-> {}, loaded_files |-> <<>>,
                       A |-> <<>>, i |-> 0, L |-> <<>>, F |-> <<>>]

\* preparse_file raises
FileRaise(ret) ==
    /\ calls' = Append(calls, [fn |-> "preparse_file", by |-> "caller", ret |-> ret])
    /\ pc' = "done"

\* lines 920-954: preparse_file(contents, ...) up to the loop
FileStart ==
    /\ pc \in {"first", "called"}
    /\ IF ~state.is_str
       THEN FileRaise(Raised("TypeError")) /\ UNCHANGED state
       ELSE LET numeric_literals ==
                    state.numeric_literals /\ ~Contains(code, <<"@", "p", "a", "r", "a", "l", "l", "e", "l">>)
            IN  \E contents \in (IF numeric_literals
                                 THEN Factored(code)
                                 ELSE {Text(code)}) :
                    IF contents.kind # "ok"
                    THEN FileRaise(contents) /\ UNCHANGED state
                    ELSE /\ state' = [state EXCEPT
                                          !.numeric_literals = numeric_literals,
                                          !.A = SplitLines(contents.text)]
                         /\ pc' = "loop"
                         /\ UNCHANGED calls
    /\ UNCHANGED <<code, quote_state, implicit_mul_level>>

\* lines 955-1003: one turn of the loop up to the call of preparse
FileLine ==
    /\ pc = "loop"
    /\ state.i < Len(state.A)
    /\ \E turn \in {Turn(RStrip(state.A[state.i + 1]), state)} :
       \E attached \in {IF "attach" \in DOMAIN turn
                        THEN state.attached \cup turn.attach ELSE state.attached} :
           IF turn.kind = "raise"
           THEN FileRaise(turn.ret) /\ UNCHANGED state
           ELSE IF turn.kind = "skip"
           THEN /\ state' = [state EXCEPT
                                 !.attached = attached,
                                 !.loaded_files = @ \o turn.loaded,
                                 !.i = @ + 1]
                /\ UNCHANGED <<calls, pc>>
           ELSE IF turn.kind = "expand"
           THEN /\ state' = [state EXCEPT
                                 !.attached = attached,
                                 !.loaded_files = @ \o turn.loaded,
                                 !.A = Slice(@, 0, state.i) \o turn.lines
                                           \o SliceFrom(@, state.i + 1)]
                /\ UNCHANGED <<calls, pc>>
           ELSE /\ state' = [state EXCEPT
                                 !.attached = attached,
                                 !.loaded_files = @ \o turn.loaded,
                                 !.L = turn.L]
                /\ pc' = "line 1004"
                /\ UNCHANGED calls
    /\ UNCHANGED <<code, quote_state, implicit_mul_level>>

\* the calls of preparse that come next: preparse(line, reset=False) by a
\* caller before preparse_file is called, or the call of line 1004
NextCalls ==
    IF pc = "first"
    THEN {[L |-> line, reset |-> FALSE, numeric_literals |-> TRUE, by |-> "caller"] :
              line \in EarlierLines}
    ELSE IF pc = "line 1004"
    THEN {[L |-> state.L, reset |-> state.i = 0,
           numeric_literals |-> ~state.numeric_literals, by |-> "preparse_file"]}
    ELSE {}

\* a call of preparse; lines 1004-1006 when the loop makes it: the line
\* returned goes to F, and an exception of preparse leaves preparse_file
FilePreparse ==
    /\ \E c \in NextCalls :
       \E r \in {preparse(c.L, c.reset, FALSE, FALSE, c.numeric_literals,
                          quote_state, implicit_mul_level)} :
       \E call \in {[fn |-> "preparse", by |-> c.by,
                     args |-> [line |-> c.L, reset |-> c.reset, do_time |-> FALSE,
                               ignore_prompts |-> FALSE,
                               numeric_literals |-> c.numeric_literals,
                               quote_state |-> quote_state,
                               implicit_mul_level |-> implicit_mul_level],
                     ret |-> r.ret]} :
           /\ quote_state' = r.quote_state
           /\ IF c.by = "caller"
              THEN /\ calls' = Append(calls, call)
                   /\ pc' = "called"
                   /\ UNCHANGED state
              ELSE IF r.ret.kind = "ok"
              THEN /\ calls' = Append(calls, call)
                   /\ state' = [state EXCEPT !.F = Append(@, r.ret.text), !.i = @ + 1]
                   /\ pc' = "loop"
              ELSE /\ calls' = calls \o <<call, [fn |-> "preparse_file",
                                                  by |-> "caller", ret |-> r.ret]>>
                   /\ pc' = "done"
                   /\ UNCHANGED state
    /\ UNCHANGED <<code, implicit_mul_level>>

\* line 1009: return '\n'.join(F)
FileReturn ==
    /\ pc = "loop"
    /\ state.i >= Len(state.A)
    /\ calls' = Append(calls, [fn |-> "preparse_file", by |-> "caller",
                               ret |-> Text(JoinWith(state.F, <<NL>>))])
    /\ pc' = "done"
    /\ UNCHANGED <<code, state, quote_state, implicit_mul_level>>

FileNext == FileStart \/ FileLine \/ FilePreparse \/ FileReturn

SpecFile == FileInit /\ [][FileNext]_vars

\* the call number k is the first call of preparse that preparse_file makes
FirstByFile(k) ==
    /\ calls[k].fn = "preparse"
    /\ calls[k].by = "preparse_file"
    /\ \A j \in 1 .. k - 1 : calls[j].by # "preparse_file"

\* C29: the first line that reaches preparse in a call of preparse_file is
\* processed with a cleared quote state, whatever a caller handed to
\* preparse before and whatever the first line of the contents is, a load
\* line that is skipped included
C29_FirstLineCleared ==
    \A k \in 1 .. Len(calls) : FirstByFile(k) => GivenState(calls[k]) = NoState

\* the line the loop is at
LineAt == RStrip(state.A[state.i + 1])

IsLoadLine(L) == Slice(L, 0, 5) = <<"l", "o", "a", "d", " ">>

IsAttachLine(L) == Slice(L, 0, 7) = <<"a", "t", "t", "a", "c", "h", " ">>

\* the target a load or attach line names
TargetOf(L) == NameLoad(SliceFrom(L, IF IsAttachLine(L) THEN 7 ELSE 5))

IsLoaded(name) == \E k \in 1 .. Len(state.loaded_files) : state.loaded_files[k] = name

\* the loop is at a load or attach line that names a target of the loaded
\* list
AtRepeatedTarget ==
    /\ pc = "loop"
    /\ state.i < Len(state.A)
    /\ state.magic
    /\ IsLoadLine(LineAt) \/ IsAttachLine(LineAt)
    /\ IsLoaded(TargetOf(LineAt))

\* the line is passed over: no line goes to F, no file is read, and the
\* loop is at the next line
Skipped ==
    /\ pc' = "loop"
    /\ state'.i = state.i + 1
    /\ state'.F = state.F
    /\ state'.A = state.A
    /\ state'.loaded_files = state.loaded_files
    /\ calls' = calls

\* C30: with magic, a load or attach line that names a target already in
\* the loaded list is skipped and gives no output line, so that each target
\* is expanded at most once
C30_RepeatedTargetSkipped == [][AtRepeatedTarget => Skipped]_vars

\* the same of the load lines, and of the attach lines whose file is on
\* disk
RepeatedLoadSkipped ==
    [][AtRepeatedTarget /\ (IsLoadLine(LineAt) \/ TargetOf(LineAt) \in DOMAIN state.files)
           => Skipped]_vars

\* no name is twice in the loaded list
LoadedOnce ==
    \A j, k \in 1 .. Len(state.loaded_files) :
        state.loaded_files[j] = state.loaded_files[k] => j = k

\* the lines of the longest file
LongestFile == SetMax({Len(ReadLines(text)) : text \in FileTexts})

\* a bound of the steps the call of preparse_file has left: two for each
\* line from the line of index i on, and the lines of a longest file for
\* each file that is not in the loaded list
Rank ==
    IF pc = "done" THEN 0
    ELSE 1 + 2 * LongestFile * Cardinality({name \in DOMAIN state.files : ~IsLoaded(name)})
           + 2 * (Len(state.A) - state.i) + (IF pc = "loop" THEN 1 ELSE 0)

\* every step of the loop takes the call nearer to its end, which it
\* reaches in at most Rank steps
RankFalls == pc \in {"loop", "line 1004"} => (0 <= Rank' /\ Rank' < Rank)

LoopComesToEnd == [][RankFalls]_vars

----------------------------------------------------------------------------
(* A caller that applies the numeric rewrite to a text and then to the     *)
(* text it got back                                                        *)

MaxTwicePieces == 3

TwicePieces == {<<"2">>, <<"5">>, <<".">>, <<"j">>, <<"e">>, <<" ">>,
                <<"x">>, <<"+">>}

TwiceInit ==
    /\ pc = "first"
    /\ code \in TextsUpTo(TwicePieces, MaxTwicePieces)
    /\ state = NoState
    /\ calls = <<>>
    /\ quote_state = NoState
    /\ implicit_mul_level = DefaultLevel

\* code = preparse_numeric_literals(code), a first and a second time
NumericTwice ==
    /\ pc \in {"first", "numeric again"}
    /\ \E call \in {NumericCall(code, FALSE)} :
           /\ calls' = Append(calls, call)
           /\ code' = call.ret
    /\ pc' = IF pc = "first" THEN "numeric again" ELSE "done"
    /\ UNCHANGED <<state, quote_state, implicit_mul_level>>

\* code = preparse(code), a first and a second time
PreparseTwice ==
    /\ pc \in {"first", "preparse again"}
    /\ \E r \in {preparse(code, TRUE, FALSE, FALSE, TRUE, quote_state,
                          implicit_mul_level)} :
           /\ calls' = Append(calls,
                  [fn |-> "preparse",
                   args |-> [line |-> code, reset |-> TRUE, do_time |-> FALSE,
                             ignore_prompts |-> FALSE,
                             numeric_literals |-> TRUE,
                             quote_state |-> quote_state,
                             implicit_mul_level |-> implicit_mul_level],
                   ret |-> r.ret])
           /\ quote_state' = r.quote_state
           /\ code' = IF r.ret.kind = "ok" THEN r.ret.text ELSE code
           /\ pc' = IF pc = "first" /\ r.ret.kind = "ok" THEN "preparse again"
                    ELSE "done"
    /\ UNCHANGED <<state, implicit_mul_level>>

TwiceNext == NumericTwice \/ PreparseTwice

SpecTwice == TwiceInit /\ [][TwiceNext]_vars

----------------------------------------------------------------------------
(* Properties of the rewrite applied twice *)

\* the text a call has returned
TextOf(c) == IF IsPreparse(c) THEN c.ret.text ELSE c.ret

\* the text a call was given
GivenText(c) == IF IsPreparse(c) THEN c.args.line ELSE c.args.code

\* C14: the rewrite applied to its own output wraps no numeral again: the
\* second application returns the text it was given.
C14_FixedPoint ==
    (Len(calls) = 2 /\ (IsPreparse(calls[2]) => calls[2].ret.kind = "ok"))
        => TextOf(calls[2]) = GivenText(calls[2])

----------------------------------------------------------------------------
(* A caller of extract_numeric_literals on numerals separated by blanks *)

MaxExtractPieces == 4

ExtractPieces == {<<"1">>, <<"0">>, <<".">>, <<"j">>, <<"J">>, <<" ">>,
                  <<"1", "e", "1">>, <<"1", "e", "+", "1">>}

ExtractInit ==
    /\ pc = "first"
    /\ code \in TextsUpTo(ExtractPieces, MaxExtractPieces)
    /\ state = NoState
    /\ calls = <<>>
    /\ quote_state = NoState
    /\ implicit_mul_level = DefaultLevel

SpecExtract == ExtractInit /\ [][NumericExtract]_vars

----------------------------------------------------------------------------
(* Properties of extract_numeric_literals *)

\* the runs of non-blank characters of t, in order
RECURSIVE Words(_)
Words(t) ==
    IF t = <<>> THEN <<>>
    ELSE IF t[1] = " " THEN Words(Tail(t))
    ELSE <<Slice(t, 0, RunEndNot(t, 0, {" "}))>>
             \o Words(SliceFrom(t, RunEndNot(t, 0, {" "})))

\* every word of t is a decimal, real or imaginary numeral
AllNumerals(t) == \A k \in 1 .. Len(Words(t)) : IsNumeral(Words(t)[k])

\* C15: within one extraction two numeral occurrences get the same
\* identifier exactly when they have the same spelling; every identifier
\* starts with _sage_const_ and has one entry in the map, the constructor
\* built from the spelling of every occurrence it replaces.
C15_DeduplicatedBySpelling ==
    \A i \in 1 .. Len(calls) :
        LET c == calls[i]
            spellings == Words(c.args.code)
            names == Words(c.ret.code)
        IN  (/\ c.fn = "preparse_numeric_literals"
             /\ c.args.extract
             /\ AllNumerals(c.args.code))
                => /\ Len(names) = Len(spellings)
                   /\ \A k \in 1 .. Len(names) :
                          /\ IsPrefix(numeric_literal_prefix, names[k])
                          /\ names[k] \in DOMAIN c.ret.literals
                          /\ c.ret.literals[names[k]] = Constructor(spellings[k])
                   /\ \A k \in 1 .. Len(names), n \in 1 .. Len(names) :
                          names[k] = names[n] <=> spellings[k] = spellings[n]
                   /\ DOMAIN c.ret.literals = {names[k] : k \in 1 .. Len(names)}

====
